---- MODULE Spec2Model ----
(***************************************************************************)
(* Model of the client-side reflow / pagination pipeline of                *)
(* generateSlidesFromText (src/services/geminiService.ts) and of the slide *)
(* list editing handlers of App.tsx and Editor.tsx.                        *)
(*                                                                         *)
(* A string is a sequence of one-character strings, so that length, slice, *)
(* startsWith, trim and the sentence regex are computed character by       *)
(* character as the JavaScript does.                                       *)
(***************************************************************************)
EXTENDS Integers, Sequences, FiniteSets, TLC

\* ------------------------------------------------------------------------
\* Program constants (geminiService.ts:26-28)
\* ------------------------------------------------------------------------
MAX_LINES_PER_PAGE == 19
CHARS_PER_LINE == 22
MAX_CHARS_PER_PARA == 69

\* ------------------------------------------------------------------------
\* Bounds of the model
\* ------------------------------------------------------------------------
\* largest number of paragraphs in the content of the slide under study
MaxParas == 2
\* largest value Date.now() takes
MaxTime == 3

\* ------------------------------------------------------------------------
\* Strings
\* ------------------------------------------------------------------------
\* the character class of the sentence regex: the ideographic full stop
\* U+3002, the fullwidth exclamation mark U+FF01, the fullwidth question mark
\* U+FF1F (each one UTF-16 unit, written here by code point) and . ! ?
Boundary == {"U+3002", "U+FF01", "U+FF1F", ".", "!", "?"}

\* characters removed by String.prototype.trim that the inputs use
Whitespace == {" ", "\n", "\t"}

Letters == <<"a", "b", "c", "d", "e", "f", "g">>

\* n letters, cycling through Letters from offset off, so that a reordering
\* or a shifted cut of the text is visible
RunOf(n, off) == [k \in 1..n |-> Letters[((k + off) % Len(Letters)) + 1]]

\* text.slice(from) and text.slice(0, to) with 0-based offsets, clamped to the
\* length as JavaScript clamps them
SliceFrom(text, from) ==
    IF from >= Len(text) THEN <<>> ELSE SubSeq(text, from + 1, Len(text))

SliceTo(text, to) ==
    IF to >= Len(text) THEN text ELSE SubSeq(text, 1, to)

\* text.startsWith(prefix)
StartsWith(text, prefix) ==
    /\ Len(text) >= Len(prefix)
    /\ SubSeq(text, 1, Len(prefix)) = prefix

\* text.trim() === ''
TrimIsEmpty(text) == \A k \in 1..Len(text) : text[k] \in Whitespace

\* Math.ceil(a / b) for a >= 0, b > 0
Ceil(a, b) == (a + b - 1) \div b

\* array.join('') of an array of strings
RECURSIVE Join(_)
Join(parts) ==
    IF parts = <<>> THEN <<>> ELSE Head(parts) \o Join(Tail(parts))

\* ------------------------------------------------------------------------
\* splitIntoSentences (geminiService.ts:31-33)
\* ------------------------------------------------------------------------
\* The matches of /[^B]+[B]+|[^B]+$/g on text, B the boundary class.  Both
\* alternatives need a non-boundary character first and take the whole run
\* of them; the first then takes the whole boundary run that follows, the
\* second applies when the run reaches the end of the text.  So a match
\* starts at every non-boundary character that opens the text or follows a
\* boundary character, and runs up to the character before the next start,
\* or to the end of the text; a boundary run that opens the text is in no
\* match.
SentenceStarts(text) ==
    {p \in 1..Len(text) :
        text[p] \notin Boundary /\ (p = 1 \/ text[p - 1] \in Boundary)}

RegexMatches(text) ==
    LET starts == SentenceStarts(text)
        count == Cardinality(starts)
        \* the n-th start in text order
        nth(n) == CHOOSE p \in starts : Cardinality({q \in starts : q <= p}) = n
    IN  [n \in 1..count |->
            SubSeq(text, nth(n), IF n = count THEN Len(text) ELSE nth(n + 1) - 1)]

\* text.match(...) || [text]: match returns null when nothing matches
splitIntoSentences(text) ==
    IF SentenceStarts(text) = {} THEN <<text>> ELSE RegexMatches(text)

\* ------------------------------------------------------------------------
\* getLineCost (geminiService.ts:69-76)
\* ------------------------------------------------------------------------
\* getLineCost without the line added for the margin of the paragraph
getLineCostNoMargin(text) ==
    IF StartsWith(text, <<"#", "#", " ">>) THEN 3
    ELSE IF StartsWith(text, <<"#", "#", "#", " ">>) THEN 2
    ELSE IF TrimIsEmpty(text) THEN 0
    ELSE Ceil(Len(text), CHARS_PER_LINE)

getLineCost(text) ==
    IF StartsWith(text, <<"#", "#", " ">>) THEN 3
    ELSE IF StartsWith(text, <<"#", "#", "#", " ">>) THEN 2
    ELSE IF TrimIsEmpty(text) THEN 0
    ELSE Ceil(Len(text), CHARS_PER_LINE) + 1

IsHeading(text) == StartsWith(text, <<"#">>)

\* ------------------------------------------------------------------------
\* reflowContent (geminiService.ts:36-66)
\* ------------------------------------------------------------------------
\* WhileContinues with the threshold one line of text too high
WhileContinuesLate(cur) ==
    /\ Len(cur) > MAX_CHARS_PER_PARA + CHARS_PER_LINE
    /\ Len(splitIntoSentences(cur)) > 1

\* the test of the while loop together with the break on line 50
WhileContinues(cur) ==
    /\ Len(cur) > MAX_CHARS_PER_PARA
    /\ Len(splitIntoSentences(cur)) > 1

\* one iteration of the while loop (lines 49-61) for slot i (1-based) of buf:
\* the last sentence is popped and put in front of the next slot, or pushed
\* as a new last slot; current becomes the join of the other sentences
SplitStep(buf, i, cur) ==
    LET sentences == splitIntoSentences(cur)
        lastSentence == sentences[Len(sentences)]
        remainder == Join(SubSeq(sentences, 1, Len(sentences) - 1))
    IN  [current |-> remainder,
         buffer  |-> IF i + 1 <= Len(buf)
                     THEN [buf EXCEPT ![i + 1] = lastSentence \o buf[i + 1]]
                     ELSE Append(buf, lastSentence)]

\* the while loop of lines 48-62 run to its exit
RECURSIVE ReflowWhile(_, _, _)
ReflowWhile(buf, i, cur) ==
    IF WhileContinues(cur)
    THEN LET st == SplitStep(buf, i, cur)
         IN  ReflowWhile(st.buffer, i, st.current)
    ELSE [current |-> cur, buffer |-> buf]

\* the for loop of lines 40-64 from slot i on
RECURSIVE ReflowFor(_, _, _)
ReflowFor(buf, i, out) ==
    IF i > Len(buf) THEN out
    ELSE IF IsHeading(buf[i]) THEN ReflowFor(buf, i + 1, Append(out, buf[i]))
    ELSE LET st == ReflowWhile(buf, i, buf[i])
         IN  ReflowFor(st.buffer, i + 1, Append(out, st.current))

reflowContent(content) == ReflowFor(content, 1, <<>>)

\* ------------------------------------------------------------------------
\* Inputs
\* ------------------------------------------------------------------------
FullStop == "U+3002"

\* a sentence of n characters in all, closed by the boundary character stop
Sentence(n, off, stop) == Append(RunOf(n - 1, off), stop)

\* the paragraphs the content of a slide is drawn from: empty and blank
\* strings, the three kinds of `#` paragraph (the third one over the budget
\* of a page), a short sentence, paragraphs over 69 characters with two and
\* five sentence spans, with a leading boundary run, with no boundary
\* character and with nothing else, and paragraphs whose cost is 17, 18, 19
\* and 20 lines
ParaPool ==
    { <<>>,
      <<" ", " ">>,
      <<"#", "#", " ", "T">>,
      <<"#", "#", "#", " ", "T">>,
      <<"#">> \o RunOf(397, 3),
      Sentence(4, 0, FullStop),
      Sentence(40, 0, FullStop) \o Sentence(40, 3, "!"),
      <<".", ".", ".">> \o Sentence(40, 1, "?") \o Sentence(40, 2, FullStop),
      Sentence(30, 0, FullStop) \o Sentence(30, 1, ".") \o Sentence(30, 2, "U+FF01")
          \o Sentence(30, 3, "U+FF1F") \o RunOf(30, 4),
      [k \in 1..70 |-> IF k % 2 = 0 THEN FullStop ELSE "."],
      RunOf(352, 0),
      RunOf(374, 3),
      RunOf(396, 1),
      RunOf(397, 2) }

RECURSIVE SeqsUpTo(_, _)
SeqsUpTo(S, n) ==
    IF n = 0 THEN {<<>>}
    ELSE LET shorter == SeqsUpTo(S, n - 1)
         IN  shorter \cup {Append(q, x) : q \in {r \in shorter : Len(r) = n - 1}, x \in S}

\* an optional field is <<>> when undefined and <<v>> when set
None == <<>>
Some(v) == <<v>>

\* the slides of the response: SlideData (types.ts) as the server builds it
\* (server.js:151-166)
CoverSlide ==
    [type |-> "cover", title |-> "Main Title", category |-> Some("Knowledge"),
     tags |-> Some(<<"tag">>), content |-> <<Sentence(4, 5, FullStop)>>]

ContentSlide(content) ==
    [type |-> "content", title |-> "", category |-> Some("Knowledge"),
     tags |-> None, content |-> content]

\* a slide of another type, with a paragraph reflowContent would split and
\* a paragraph over the budget of a page
PromoSlide ==
    [type |-> "promo", title |-> "Follow", category |-> None,
     tags |-> None,
     content |-> <<Sentence(40, 6, FullStop) \o Sentence(40, 1, "!"),
                   RunOf(397, 6)>>]

\* a content slide that carries every optional field of SlideData the
\* response may set: a title, a category, tags and a background image
StyledSlide ==
    [type |-> "content", title |-> "Styled", category |-> Some("Own"),
     tags |-> Some(<<"own">>), backgroundImage |-> Some("custom-bg"),
     content |-> <<Sentence(4, 6, "?")>>]

\* the slides around the content slide under study: none, or a cover before
\* it and a slide of another type or a content slide after it
Surroundings ==
    { [head |-> <<>>, tail |-> <<>>],
      [head |-> <<CoverSlide>>, tail |-> <<PromoSlide>>],
      [head |-> <<CoverSlide>>, tail |-> <<StyledSlide>>] }

\* the responses of /api/generate the pipeline is run on
GeneratedInputs ==
    { around.head \o <<ContentSlide(c)>> \o around.tail :
        around \in Surroundings,
        c \in SeqsUpTo(ParaPool, MaxParas) }

\* the responses the termination of the loops is checked on: one content
\* slide whose paragraphs are an empty string, a string shorter than a line,
\* strings over 69 characters with no boundary character, with nothing else
\* and with two sentences, a heading, and a paragraph that fills a page
TerminationPool ==
    { <<>>,
      Sentence(4, 0, FullStop),
      RunOf(100, 0),
      [k \in 1..70 |-> IF k % 2 = 0 THEN FullStop ELSE "."],
      Sentence(40, 0, FullStop) \o Sentence(40, 3, "!"),
      <<"#", "#", " ", "T">>,
      RunOf(396, 1) }

TerminationInputs ==
    { <<ContentSlide(c)>> : c \in SeqsUpTo(TerminationPool, MaxParas) }

\* ------------------------------------------------------------------------
\* State of one run of generateSlidesFromText after the response arrived
\* ------------------------------------------------------------------------
VARIABLES
    generatedData,     \* the parsed response (line 22)
    slideIdx,          \* 1-based position of the forEach of line 80
    pc,                \* "slide", "reflowFor", "reflowWhile", "page", "done"
    buffer,            \* reflowContent: buffer
    ri,                \* reflowContent: i, 1-based
    current,           \* reflowContent: current
    refined,           \* reflowContent: refined
    reflowedContent,   \* line 86
    pi,                \* pagination loop: i, 1-based
    currentChunk,      \* line 88
    currentLinesUsed,  \* line 89
    paginatedSlides,   \* line 78
    origin,            \* for each paginated slide, the position in
                       \* generatedData of the slide it was pushed for
    finalSlides,       \* the value returned on line 143
    \* state of the App component (App.tsx:41-48)
    slides,
    activeSlideId,     \* NullId or the id of a slide
    isGenerating,
    error,             \* None or Some(message)
    clock,             \* the last value Date.now() returned to a handler
    lastEdit           \* the last edit made to the list: "none", "add",
                       \* "delete", "split" or "generate"

pipelineVars ==
    <<generatedData, slideIdx, pc, buffer, ri, current, refined,
      reflowedContent, pi, currentChunk, currentLinesUsed, paginatedSlides,
      origin, finalSlides>>

appVars == <<slides, activeSlideId, isGenerating, error, clock, lastEdit>>

\* state of one run of handleDownloadAll (App.tsx:161-218)
VARIABLES
    isDownloading,     \* App.tsx:43
    downloadStatus,    \* App.tsx:44, <<>> for the empty string
    exportPc,          \* "idle", "settle", "yield", "capture" or "zip": the
                       \* await the handler is suspended at
    exportSlides,      \* the slides of the render the handler was created in
    ei,                \* the loop variable i, 1-based
    zipFiles,          \* the files added to the folder of the archive
    attempted,         \* the positions toBlob was called for, in call order
    failed,            \* the positions whose capture gave no file, each
                       \* with "rejected" or "no blob"
    saved              \* None, or Some(files) of the archive given to saveAs

exportVars ==
    <<isDownloading, downloadStatus, exportPc, exportSlides, ei, zipFiles,
      attempted, failed, saved>>

\* state of one request to POST /api/generate (server.js:101-176)
VARIABLES
    reqBody,           \* req.body
    serverPc,          \* "listening", "callDeepSeek" or "responded"
    completion,        \* what the chat completion held, once it has returned
    aiResultRaw,       \* server.js:136
    res                \* the response sent: status and JSON body

\* state of a request to the region-routed server, next to the above
VARIABLES
    country,           \* the country the request resolved to, once it has
    calls              \* the provider calls made, in order, with their outcome

serverVars ==
    <<reqBody, serverPc, completion, aiResultRaw, res, country, calls>>

vars == <<pipelineVars, appVars, exportVars, serverVars>>

slide == generatedData[slideIdx]

\* activeSlideId = null
NullId == <<>>

\* placeholderSlides (App.tsx:22-34)
placeholderSlides ==
    << [id              |-> <<"intro-cover">>,
        type            |-> "cover",
        title           |-> "placeholder",
        content         |-> <<Sentence(4, 0, FullStop)>>,
        category        |-> Some("System"),
        tags            |-> None,
        pageNumber      |-> None,
        totalPages      |-> None,
        backgroundImage |-> Some("unsplash"),
        titleFontSize   |-> Some(48),
        coverStyle      |-> Some("classic")] >>

\* no export is running: the useState initial values of App.tsx:43-44
ExportIdle ==
    /\ isDownloading = FALSE
    /\ downloadStatus = <<>>
    /\ exportPc = "idle"
    /\ exportSlides = <<>>
    /\ ei = 1
    /\ zipFiles = <<>>
    /\ attempted = <<>>
    /\ failed = {}
    /\ saved = None

\* the server has received no request
ServerListening ==
    /\ reqBody = <<>>
    /\ serverPc = "listening"
    /\ completion = <<>>
    /\ aiResultRaw = <<>>
    /\ res = <<>>
    /\ country = <<>>
    /\ calls = <<>>

\* the useState initial values of App.tsx:41-48
AppStart ==
    /\ slides = placeholderSlides
    /\ activeSlideId = placeholderSlides[1].id
    /\ isGenerating = FALSE
    /\ error = None
    /\ clock = 0
    /\ lastEdit = "none"
    /\ ExportIdle

\* no generation is running in the pipeline variables
PipelineIdle ==
    /\ generatedData = <<>>
    /\ slideIdx = 1
    /\ pc = "idle"
    /\ buffer = <<>>
    /\ ri = 1
    /\ current = <<>>
    /\ refined = <<>>
    /\ reflowedContent = <<>>
    /\ pi = 1
    /\ currentChunk = <<>>
    /\ currentLinesUsed = 0
    /\ paginatedSlides = <<>>
    /\ origin = <<>>
    /\ finalSlides = <<>>

\* the state when the response has been parsed
StartOn(inputs) ==
    /\ generatedData \in inputs
    /\ slideIdx = 1
    /\ pc = "slide"
    /\ buffer = <<>>
    /\ ri = 1
    /\ current = <<>>
    /\ refined = <<>>
    /\ reflowedContent = <<>>
    /\ pi = 1
    /\ currentChunk = <<>>
    /\ currentLinesUsed = 0
    /\ paginatedSlides = <<>>
    /\ origin = <<>>
    /\ finalSlides = <<>>
    /\ AppStart
    /\ ServerListening

\* paginatedSlides.push(s) for the slide being visited
Push(s) ==
    /\ paginatedSlides' = Append(paginatedSlides, s)
    /\ origin' = Append(origin, slideIdx)

\* paginatedSlides.push({ ...slide, content: chunk })
PushPage(chunk) == Push([slide EXCEPT !.content = chunk])

\* PassThrough with a guard that drops a content slide without content
\* instead of pushing it
PassThroughSkipsEmpty ==
    /\ pc = "slide"
    /\ slideIdx <= Len(generatedData)
    /\ slide.type # "content" \/ Len(slide.content) = 0
    /\ IF slide.type # "content"
       THEN Push(slide)
       ELSE UNCHANGED <<paginatedSlides, origin>>
    /\ slideIdx' = slideIdx + 1
    /\ UNCHANGED <<generatedData, pc, buffer, ri, current, refined,
                   reflowedContent, pi, currentChunk, currentLinesUsed,
                   finalSlides>>
    /\ UNCHANGED <<appVars, exportVars, serverVars>>

\* lines 81-84: a slide that is not a content slide, or has no content,
\* is pushed as it is
PassThrough ==
    /\ pc = "slide"
    /\ slideIdx <= Len(generatedData)
    /\ slide.type # "content" \/ Len(slide.content) = 0
    /\ Push(slide)
    /\ slideIdx' = slideIdx + 1
    /\ UNCHANGED <<generatedData, pc, buffer, ri, current, refined,
                   reflowedContent, pi, currentChunk, currentLinesUsed,
                   finalSlides>>
    /\ UNCHANGED <<appVars, exportVars, serverVars>>

\* BeginReflow whose guard lacks the test of the type: a slide of any type
\* with content may be reflowed and paginated
BeginReflowAnyType ==
    /\ pc = "slide"
    /\ slideIdx <= Len(generatedData)
    /\ ~(Len(slide.content) = 0)
    /\ buffer' = slide.content
    /\ refined' = <<>>
    /\ ri' = 1
    /\ pc' = "reflowFor"
    /\ UNCHANGED <<generatedData, slideIdx, current, reflowedContent, pi,
                   currentChunk, currentLinesUsed, paginatedSlides, origin,
                   finalSlides>>
    /\ UNCHANGED <<appVars, exportVars, serverVars>>

\* line 86, entering reflowContent: lines 37-38
BeginReflow ==
    /\ pc = "slide"
    /\ slideIdx <= Len(generatedData)
    /\ ~(slide.type # "content" \/ Len(slide.content) = 0)
    /\ buffer' = slide.content
    /\ refined' = <<>>
    /\ ri' = 1
    /\ pc' = "reflowFor"
    /\ UNCHANGED <<generatedData, slideIdx, current, reflowedContent, pi,
                   currentChunk, currentLinesUsed, paginatedSlides, origin,
                   finalSlides>>
    /\ UNCHANGED <<appVars, exportVars, serverVars>>

\* lines 41-46: a slot that starts with `#` is pushed unchanged
ReflowHeading ==
    /\ pc = "reflowFor"
    /\ ri <= Len(buffer)
    /\ IsHeading(buffer[ri])
    /\ refined' = Append(refined, buffer[ri])
    /\ ri' = ri + 1
    /\ UNCHANGED <<generatedData, slideIdx, pc, buffer, current,
                   reflowedContent, pi, currentChunk, currentLinesUsed,
                   paginatedSlides, origin, finalSlides>>
    /\ UNCHANGED <<appVars, exportVars, serverVars>>

\* line 41 for any other slot: the while loop is entered
ReflowLoad ==
    /\ pc = "reflowFor"
    /\ ri <= Len(buffer)
    /\ ~IsHeading(buffer[ri])
    /\ current' = buffer[ri]
    /\ pc' = "reflowWhile"
    /\ UNCHANGED <<generatedData, slideIdx, buffer, ri, refined,
                   reflowedContent, pi, currentChunk, currentLinesUsed,
                   paginatedSlides, origin, finalSlides>>
    /\ UNCHANGED <<appVars, exportVars, serverVars>>

\* ReflowSplit with an `if` in place of the `while`: current is pushed after
\* one split, whatever its length
ReflowSplitOnce ==
    /\ pc = "reflowWhile"
    /\ WhileContinues(current)
    /\ LET st == SplitStep(buffer, ri, current)
       IN  /\ current' = st.current
           /\ buffer' = st.buffer
           /\ refined' = Append(refined, st.current)
    /\ ri' = ri + 1
    /\ pc' = "reflowFor"
    /\ UNCHANGED <<generatedData, slideIdx, reflowedContent, pi, currentChunk,
                   currentLinesUsed, paginatedSlides, origin, finalSlides>>
    /\ UNCHANGED <<appVars, exportVars, serverVars>>

\* lines 48-62: one iteration of the while loop
ReflowSplit ==
    /\ pc = "reflowWhile"
    /\ WhileContinues(current)
    /\ LET st == SplitStep(buffer, ri, current)
       IN  /\ current' = st.current
           /\ buffer' = st.buffer
    /\ UNCHANGED <<generatedData, slideIdx, pc, ri, refined, reflowedContent,
                   pi, currentChunk, currentLinesUsed, paginatedSlides,
                   origin, finalSlides>>
    /\ UNCHANGED <<appVars, exportVars, serverVars>>

\* ReflowPush without the break of line 50: the loop is left only when
\* current is short enough, and spins on a long paragraph of one sentence
ReflowPushShortOnly ==
    /\ pc = "reflowWhile"
    /\ Len(current) <= MAX_CHARS_PER_PARA
    /\ refined' = Append(refined, current)
    /\ ri' = ri + 1
    /\ pc' = "reflowFor"
    /\ UNCHANGED <<generatedData, slideIdx, buffer, current, reflowedContent,
                   pi, currentChunk, currentLinesUsed, paginatedSlides,
                   origin, finalSlides>>
    /\ UNCHANGED <<appVars, exportVars, serverVars>>

\* line 63: the while loop is left and current is pushed
ReflowPush ==
    /\ pc = "reflowWhile"
    /\ ~WhileContinues(current)
    /\ refined' = Append(refined, current)
    /\ ri' = ri + 1
    /\ pc' = "reflowFor"
    /\ UNCHANGED <<generatedData, slideIdx, buffer, current, reflowedContent,
                   pi, currentChunk, currentLinesUsed, paginatedSlides,
                   origin, finalSlides>>
    /\ UNCHANGED <<appVars, exportVars, serverVars>>

\* lines 65 and 86-89: reflowContent returns, the pagination loop starts
BeginPaginate ==
    /\ pc = "reflowFor"
    /\ ri > Len(buffer)
    /\ reflowedContent' = refined
    /\ currentChunk' = <<>>
    /\ currentLinesUsed' = 0
    /\ pi' = 1
    /\ pc' = "page"
    /\ UNCHANGED <<generatedData, slideIdx, buffer, ri, current, refined,
                   paginatedSlides, origin, finalSlides>>
    /\ UNCHANGED <<appVars, exportVars, serverVars>>

paragraph == reflowedContent[pi]
cost == getLineCost(paragraph)
remainingLines == MAX_LINES_PER_PAGE - currentLinesUsed

InPageLoop == pc = "page" /\ pi <= Len(reflowedContent)

\* PageFit with < in the test of line 95: a paragraph that fills the page
\* exactly is taken to the next page by the branch of lines 108-111
PageFitStrict ==
    /\ InPageLoop
    /\ currentLinesUsed + cost <= MAX_LINES_PER_PAGE
    /\ IF currentLinesUsed + cost < MAX_LINES_PER_PAGE
       THEN /\ currentChunk' = Append(currentChunk, paragraph)
            /\ currentLinesUsed' = currentLinesUsed + cost
            /\ UNCHANGED <<paginatedSlides, origin>>
       ELSE /\ PushPage(currentChunk)
            /\ currentChunk' = <<paragraph>>
            /\ currentLinesUsed' = cost
    /\ pi' = pi + 1
    /\ UNCHANGED <<generatedData, slideIdx, pc, buffer, ri, current, refined,
                   reflowedContent, finalSlides>>
    /\ UNCHANGED <<appVars, exportVars, serverVars>>

\* lines 95-97: the paragraph fits
PageFit ==
    /\ InPageLoop
    /\ currentLinesUsed + cost <= MAX_LINES_PER_PAGE
    /\ currentChunk' = Append(currentChunk, paragraph)
    /\ currentLinesUsed' = currentLinesUsed + cost
    /\ pi' = pi + 1
    /\ UNCHANGED <<generatedData, slideIdx, pc, buffer, ri, current, refined,
                   reflowedContent, paginatedSlides, origin, finalSlides>>
    /\ UNCHANGED <<appVars, exportVars, serverVars>>

\* PageHeading that flushes the current chunk even when it is empty
PageHeadingAlwaysFlush ==
    /\ InPageLoop
    /\ ~(currentLinesUsed + cost <= MAX_LINES_PER_PAGE)
    /\ IsHeading(paragraph)
    /\ PushPage(currentChunk)
    /\ currentChunk' = <<paragraph>>
    /\ currentLinesUsed' = cost
    /\ pi' = pi + 1
    /\ UNCHANGED <<generatedData, slideIdx, pc, buffer, ri, current, refined,
                   reflowedContent, finalSlides>>
    /\ UNCHANGED <<appVars, exportVars, serverVars>>

\* PageHeading that closes the page with the heading on it
PageHeadingTrailing ==
    /\ InPageLoop
    /\ ~(currentLinesUsed + cost <= MAX_LINES_PER_PAGE)
    /\ IsHeading(paragraph)
    /\ PushPage(Append(currentChunk, paragraph))
    /\ currentChunk' = <<>>
    /\ currentLinesUsed' = 0
    /\ pi' = pi + 1
    /\ UNCHANGED <<generatedData, slideIdx, pc, buffer, ri, current, refined,
                   reflowedContent, finalSlides>>
    /\ UNCHANGED <<appVars, exportVars, serverVars>>

\* lines 101-106: a `#` paragraph that does not fit
PageHeading ==
    /\ InPageLoop
    /\ ~(currentLinesUsed + cost <= MAX_LINES_PER_PAGE)
    /\ IsHeading(paragraph)
    /\ IF Len(currentChunk) > 0
       THEN PushPage(currentChunk)
       ELSE UNCHANGED <<paginatedSlides, origin>>
    /\ currentChunk' = <<paragraph>>
    /\ currentLinesUsed' = cost
    /\ pi' = pi + 1
    /\ UNCHANGED <<generatedData, slideIdx, pc, buffer, ri, current, refined,
                   reflowedContent, finalSlides>>
    /\ UNCHANGED <<appVars, exportVars, serverVars>>

\* PageFlush that adds the cost of the paragraph to the running total of
\* the page it has just flushed
PageFlushKeepsTotal ==
    /\ InPageLoop
    /\ ~(currentLinesUsed + cost <= MAX_LINES_PER_PAGE)
    /\ ~IsHeading(paragraph)
    /\ remainingLines <= 1
    /\ PushPage(currentChunk)
    /\ currentChunk' = <<paragraph>>
    /\ currentLinesUsed' = currentLinesUsed + cost
    /\ pi' = pi + 1
    /\ UNCHANGED <<generatedData, slideIdx, pc, buffer, ri, current, refined,
                   reflowedContent, finalSlides>>
    /\ UNCHANGED <<appVars, exportVars, serverVars>>

\* lines 108-111: at most one line is left on the page
PageFlush ==
    /\ InPageLoop
    /\ ~(currentLinesUsed + cost <= MAX_LINES_PER_PAGE)
    /\ ~IsHeading(paragraph)
    /\ remainingLines <= 1
    /\ PushPage(currentChunk)
    /\ currentChunk' = <<paragraph>>
    /\ currentLinesUsed' = cost
    /\ pi' = pi + 1
    /\ UNCHANGED <<generatedData, slideIdx, pc, buffer, ri, current, refined,
                   reflowedContent, finalSlides>>
    /\ UNCHANGED <<appVars, exportVars, serverVars>>

\* PageSplit that cuts one character before the end of the last line
PageSplitOneShort ==
    /\ InPageLoop
    /\ ~(currentLinesUsed + cost <= MAX_LINES_PER_PAGE)
    /\ ~IsHeading(paragraph)
    /\ ~(remainingLines <= 1)
    /\ LET availableTextLines == remainingLines - 1
           maxChars == availableTextLines * CHARS_PER_LINE - 1
           part1 == SliceTo(paragraph, maxChars)
           part2 == SliceFrom(paragraph, maxChars)
       IN  /\ PushPage(Append(currentChunk, part1))
           /\ currentChunk' = <<part2>>
           /\ currentLinesUsed' = getLineCost(part2)
    /\ pi' = pi + 1
    /\ UNCHANGED <<generatedData, slideIdx, pc, buffer, ri, current, refined,
                   reflowedContent, finalSlides>>
    /\ UNCHANGED <<appVars, exportVars, serverVars>>

\* PageSplit that does not keep a line for the margin of the paragraph
PageSplitNoMargin ==
    /\ InPageLoop
    /\ ~(currentLinesUsed + cost <= MAX_LINES_PER_PAGE)
    /\ ~IsHeading(paragraph)
    /\ ~(remainingLines <= 1)
    /\ LET maxChars == remainingLines * CHARS_PER_LINE
           part1 == SliceTo(paragraph, maxChars)
           part2 == SliceFrom(paragraph, maxChars)
       IN  /\ PushPage(Append(currentChunk, part1))
           /\ currentChunk' = <<part2>>
           /\ currentLinesUsed' = getLineCost(part2)
    /\ pi' = pi + 1
    /\ UNCHANGED <<generatedData, slideIdx, pc, buffer, ri, current, refined,
                   reflowedContent, finalSlides>>
    /\ UNCHANGED <<appVars, exportVars, serverVars>>

\* PageSplit whose second part starts one character late
PageSplitDropsChar ==
    /\ InPageLoop
    /\ ~(currentLinesUsed + cost <= MAX_LINES_PER_PAGE)
    /\ ~IsHeading(paragraph)
    /\ ~(remainingLines <= 1)
    /\ LET availableTextLines == remainingLines - 1
           maxChars == availableTextLines * CHARS_PER_LINE
           part1 == SliceTo(paragraph, maxChars)
           part2 == SliceFrom(paragraph, maxChars + 1)
       IN  /\ PushPage(Append(currentChunk, part1))
           /\ currentChunk' = <<part2>>
           /\ currentLinesUsed' = getLineCost(part2)
    /\ pi' = pi + 1
    /\ UNCHANGED <<generatedData, slideIdx, pc, buffer, ri, current, refined,
                   reflowedContent, finalSlides>>
    /\ UNCHANGED <<appVars, exportVars, serverVars>>

\* lines 113-123: the paragraph is cut at a character offset
PageSplit ==
    /\ InPageLoop
    /\ ~(currentLinesUsed + cost <= MAX_LINES_PER_PAGE)
    /\ ~IsHeading(paragraph)
    /\ ~(remainingLines <= 1)
    /\ LET availableTextLines == remainingLines - 1
           maxChars == availableTextLines * CHARS_PER_LINE
           part1 == SliceTo(paragraph, maxChars)
           part2 == SliceFrom(paragraph, maxChars)
       IN  /\ PushPage(Append(currentChunk, part1))
           /\ currentChunk' = <<part2>>
           /\ currentLinesUsed' = getLineCost(part2)
    /\ pi' = pi + 1
    /\ UNCHANGED <<generatedData, slideIdx, pc, buffer, ri, current, refined,
                   reflowedContent, finalSlides>>
    /\ UNCHANGED <<appVars, exportVars, serverVars>>

\* lines 129-135: the last chunk is pushed when it is not empty, and the
\* forEach moves to the next slide
FinalFlush ==
    /\ pc = "page"
    /\ pi > Len(reflowedContent)
    /\ IF Len(currentChunk) > 0
       THEN PushPage(currentChunk)
       ELSE UNCHANGED <<paginatedSlides, origin>>
    /\ slideIdx' = slideIdx + 1
    /\ pc' = "slide"
    /\ UNCHANGED <<generatedData, buffer, ri, current, refined,
                   reflowedContent, pi, currentChunk, currentLinesUsed,
                   finalSlides>>
    /\ UNCHANGED <<appVars, exportVars, serverVars>>

\* ------------------------------------------------------------------------
\* The finishing pass (geminiService.ts:137-154)
\* ------------------------------------------------------------------------
\* v || d for an optional string v
OrElse(v, d) == IF v # None /\ v[1] # "" THEN v[1] ELSE d

CoverIndexes(list) == {k \in 1..Len(list) : list[k].type = "cover"}

\* coverCategoryOf that takes the last cover of the list
coverCategoryOfLast(finalData) ==
    LET covers == CoverIndexes(finalData)
    IN  IF covers = {} THEN "Knowledge System"
        ELSE LET last == CHOOSE k \in covers : \A j \in covers : k >= j
             IN  OrElse(finalData[last].category, "Knowledge System")

\* line 141: the category of the first cover, or the default
coverCategoryOf(finalData) ==
    LET covers == CoverIndexes(finalData)
    IN  IF covers = {} THEN "Knowledge System"
        ELSE LET first == CHOOSE k \in covers : \A j \in covers : k <= j
             IN  OrElse(finalData[first].category, "Knowledge System")

\* FinishingPass that numbers the pages from 0
FinishingPassFromZero(finalData, now) ==
    LET totalContentSlides == Len(finalData)
        coverCategory == coverCategoryOf(finalData)
    IN  [k \in 1..Len(finalData) |->
           LET s == finalData[k]
               index == k - 1
           IN  [type            |-> s.type,
                title           |-> s.title,
                content         |-> s.content,
                id              |-> <<"slide", now, index>>,
                pageNumber      |-> Some(index),
                totalPages      |-> Some(totalContentSlides),
                category        |-> Some(OrElse(s.category, coverCategory)),
                backgroundImage |-> IF s.type = "cover" THEN Some("unsplash") ELSE None,
                tags            |-> IF s.tags # None THEN s.tags
                                    ELSE Some(<<"tagA", "tagB">>),
                titleFontSize   |-> IF s.type = "cover" THEN Some(48) ELSE None,
                coverStyle      |-> IF s.type = "cover" THEN Some("classic") ELSE None]]

\* lines 143-154, with Date.now() = now; index is 0-based as in the code
FinishingPass(finalData, now) ==
    LET totalContentSlides == Len(finalData)
        coverCategory == coverCategoryOf(finalData)
    IN  [k \in 1..Len(finalData) |->
           LET s == finalData[k]
               index == k - 1
           IN  [type            |-> s.type,
                title           |-> s.title,
                content         |-> s.content,
                id              |-> <<"slide", now, index>>,
                pageNumber      |-> Some(index + 1),
                totalPages      |-> Some(totalContentSlides),
                category        |-> Some(OrElse(s.category, coverCategory)),
                backgroundImage |-> IF s.type = "cover" THEN Some("unsplash") ELSE None,
                tags            |-> IF s.tags # None THEN s.tags
                                    ELSE Some(<<"tagA", "tagB">>),
                titleFontSize   |-> IF s.type = "cover" THEN Some(48) ELSE None,
                coverStyle      |-> IF s.type = "cover" THEN Some("classic") ELSE None]]

\* lines 137-154: the forEach is over and the slides are returned
Finish ==
    /\ pc = "slide"
    /\ slideIdx > Len(generatedData)
    /\ \E now \in 1..MaxTime : finalSlides' = FinishingPass(paginatedSlides, now)
    /\ pc' = "done"
    /\ UNCHANGED <<generatedData, slideIdx, buffer, ri, current, refined,
                   reflowedContent, pi, currentChunk, currentLinesUsed,
                   paginatedSlides, origin>>
    /\ UNCHANGED <<appVars, exportVars, serverVars>>

\* largest number of slides in the lists the finishing pass is studied on
MaxSlides == 3

\* a slide of one short paragraph with the given type and category
PlainSlide(type, category) ==
    [type |-> type, title |-> "", category |-> category, tags |-> None,
     content |-> <<Sentence(4, 0, FullStop)>>]

\* covers with two different categories and with none, content slides with
\* a category of their own, with none and with the empty string
CategorySlides ==
    { PlainSlide("cover", Some("CatA")),
      PlainSlide("cover", Some("CatB")),
      PlainSlide("cover", None),
      PlainSlide("content", Some("Own")),
      PlainSlide("content", None),
      PlainSlide("content", Some("")) }

\* the forEach of line 80 is over for a response of such slides: each one
\* was pushed as it is, a content slide as its only page
FinishInit ==
    /\ generatedData \in SeqsUpTo(CategorySlides, MaxSlides)
    /\ paginatedSlides = generatedData
    /\ origin = [k \in 1..Len(generatedData) |-> k]
    /\ slideIdx = Len(generatedData) + 1
    /\ pc = "slide"
    /\ buffer = <<>>
    /\ ri = 1
    /\ current = <<>>
    /\ refined = <<>>
    /\ reflowedContent = <<>>
    /\ pi = 1
    /\ currentChunk = <<>>
    /\ currentLinesUsed = 0
    /\ finalSlides = <<>>
    /\ AppStart
    /\ ServerListening

FinishNext == Finish

FinishSpec == FinishInit /\ [][FinishNext]_vars

\* ------------------------------------------------------------------------
\* The slide list of App and its handlers (App.tsx, Editor.tsx)
\* ------------------------------------------------------------------------
ShortPara(c) == <<c, FullStop>>

\* paginated slide lists a successful generation ends with
AppResponses ==
    { <<CoverSlide, ContentSlide(<<ShortPara("a"), ShortPara("b")>>)>>,
      <<CoverSlide, ContentSlide(<<ShortPara("a")>>),
        ContentSlide(<<ShortPara("b"), ShortPara("c")>>)>> }

\* an id no slide carries
UnknownId == <<"unknown">>

SlideIds == {slides[k].id : k \in 1..Len(slides)}

\* array.findIndex(s => s.id === id), 1-based; 0 stands for -1
findIndex(list, id) ==
    LET hits == {k \in 1..Len(list) : list[k].id = id}
    IN  IF hits = {} THEN 0 ELSE CHOOSE k \in hits : \A j \in hits : k <= j

\* array.filter(s => s.id !== id)
RECURSIVE filterOut(_, _)
filterOut(list, id) ==
    IF list = <<>> THEN <<>>
    ELSE (IF Head(list).id # id THEN <<Head(list)>> ELSE <<>>)
         \o filterOut(Tail(list), id)

\* reindexSlides (App.tsx:54-77)
reindexSlides(currentSlides) ==
    LET nonCover(n) == {j \in 1..n : currentSlides[j].type # "cover"}
        totalContent == Cardinality(nonCover(Len(currentSlides)))
    IN  [k \in 1..Len(currentSlides) |->
           IF currentSlides[k].type = "cover"
           THEN [currentSlides[k] EXCEPT !.totalPages = Some(totalContent)]
           ELSE [currentSlides[k] EXCEPT
                    !.pageNumber = Some(Cardinality(nonCover(k))),
                    !.totalPages = Some(totalContent)]]

\* list.splice(at, 0, s) with a 0-based position at
InsertAt(list, at, s) ==
    SubSeq(list, 1, at) \o <<s>> \o SubSeq(list, at + 1, Len(list))

\* handleGenerate that starts without setError(null)
GenerateStartKeepsError ==
    /\ ~isGenerating
    /\ isGenerating' = TRUE
    /\ UNCHANGED <<slides, activeSlideId, error, clock, lastEdit>>
    /\ UNCHANGED <<pipelineVars, exportVars, serverVars>>

\* handleGenerate up to the await of line 84 (App.tsx:79-84); the button
\* is disabled while isGenerating (App.tsx:307)
GenerateStart ==
    /\ ~isGenerating
    /\ isGenerating' = TRUE
    /\ error' = None
    /\ UNCHANGED <<slides, activeSlideId, clock, lastEdit>>
    /\ UNCHANGED <<pipelineVars, exportVars, serverVars>>

\* handleGenerate when generateSlidesFromText resolves (App.tsx:85-88, 92)
GenerateResolve ==
    /\ isGenerating
    /\ clock < MaxTime
    /\ \E response \in AppResponses :
          LET generatedSlides == FinishingPass(response, clock + 1)
          IN  /\ slides' = generatedSlides
              /\ activeSlideId' = IF Len(generatedSlides) > 0
                                  THEN generatedSlides[1].id
                                  ELSE activeSlideId
    /\ clock' = clock + 1
    /\ isGenerating' = FALSE
    /\ lastEdit' = "generate"
    /\ UNCHANGED error
    /\ UNCHANGED <<pipelineVars, exportVars, serverVars>>

\* the err.message of a rejected generateSlidesFromText: of a rejected
\* fetch, of a non-ok answer with and without an error field, and of a
\* TypeError thrown while paginating
GenerateErrors ==
    {"Failed to fetch", "Text is required", "Failed to generate slides",
     "data.forEach is not a function"}

\* handleGenerate when generateSlidesFromText rejects (App.tsx:89-92)
GenerateReject ==
    /\ isGenerating
    /\ \E message \in GenerateErrors : error' = Some(message)
    /\ isGenerating' = FALSE
    /\ UNCHANGED <<slides, activeSlideId, clock, lastEdit>>
    /\ UNCHANGED <<pipelineVars, exportVars, serverVars>>

\* setActiveSlideId(slide.id) of the thumbnail strip (App.tsx:437)
SelectSlide ==
    /\ \E id \in SlideIds :
          /\ id # activeSlideId
          /\ activeSlideId' = id
    /\ UNCHANGED <<slides, isGenerating, error, clock, lastEdit>>
    /\ UNCHANGED <<pipelineVars, exportVars, serverVars>>

\* handleDeleteSlide that leaves activeSlideId alone
handleDeleteSlideKeepsActive ==
    /\ \E id \in SlideIds \cup {UnknownId} :
          IF findIndex(slides, id) = 0
          THEN UNCHANGED <<slides, lastEdit>>
          ELSE /\ slides' = reindexSlides(filterOut(slides, id))
               /\ lastEdit' = "delete"
    /\ UNCHANGED <<activeSlideId, isGenerating, error, clock>>
    /\ UNCHANGED <<pipelineVars, exportVars, serverVars>>

\* handleDeleteSlide (App.tsx:120-139)
handleDeleteSlide ==
    /\ \E id \in SlideIds \cup {UnknownId} :
          LET slideIndex == findIndex(slides, id)
              newSlides == filterOut(slides, id)
              reindexed == reindexSlides(newSlides)
              \* Math.min(slideIndex, reindexed.length - 1), 0-based
              nextIndex == IF slideIndex - 1 <= Len(reindexed) - 1
                           THEN slideIndex - 1 ELSE Len(reindexed) - 1
          IN  IF slideIndex = 0
              THEN UNCHANGED <<slides, activeSlideId, lastEdit>>
              ELSE /\ slides' = reindexed
                   /\ lastEdit' = "delete"
                   /\ activeSlideId' =
                        IF activeSlideId # id THEN activeSlideId
                        ELSE IF nextIndex + 1 \in 1..Len(reindexed)
                             THEN reindexed[nextIndex + 1].id
                        ELSE IF Len(reindexed) > 0 THEN reindexed[1].id
                        ELSE NullId
    /\ UNCHANGED <<isGenerating, error, clock>>
    /\ UNCHANGED <<pipelineVars, exportVars, serverVars>>

\* handleAddSlide (App.tsx:141-159), Date.now() = clock + 1
handleAddSlide ==
    /\ clock < MaxTime
    /\ \E afterId \in SlideIds \cup {UnknownId} :
          LET index == findIndex(slides, afterId)
              newSlide == [id              |-> <<"manual-slide", clock + 1>>,
                           type            |-> "content",
                           title           |-> "New Page",
                           content         |-> <<ShortPara("n")>>,
                           category        |-> slides[index].category,
                           tags            |-> None,
                           pageNumber      |-> None,
                           totalPages      |-> None,
                           backgroundImage |-> None,
                           titleFontSize   |-> None,
                           coverStyle      |-> None]
          IN  IF index = 0
              THEN UNCHANGED <<slides, activeSlideId, lastEdit, clock>>
              ELSE /\ slides' = reindexSlides(InsertAt(slides, index, newSlide))
                   /\ activeSlideId' = newSlide.id
                   /\ lastEdit' = "add"
                   /\ clock' = clock + 1
    /\ UNCHANGED <<isGenerating, error>>
    /\ UNCHANGED <<pipelineVars, exportVars, serverVars>>

\* handleSplitSlide that returns early only past the last paragraph
handleSplitSlideAtLast ==
    /\ clock < MaxTime
    /\ \E id \in SlideIds \cup {UnknownId} :
          LET slideIndex == findIndex(slides, id)
          IN  IF slideIndex = 0
              THEN UNCHANGED <<slides, activeSlideId, lastEdit, clock>>
              ELSE \E index \in 0..Len(slides[slideIndex].content) :
                   LET currentSlide == slides[slideIndex]
                       n == Len(currentSlide.content)
                       contentToKeep == SubSeq(currentSlide.content, 1, index + 1)
                       contentToMove == SubSeq(currentSlide.content, index + 2, n)
                       updatedCurrentSlide ==
                           [currentSlide EXCEPT !.content = contentToKeep]
                       newSlide == [id              |-> <<"split-slide", clock + 1>>,
                                    type            |-> "content",
                                    title           |-> currentSlide.title,
                                    content         |-> contentToMove,
                                    category        |-> currentSlide.category,
                                    tags            |-> currentSlide.tags,
                                    pageNumber      |-> None,
                                    totalPages      |-> None,
                                    backgroundImage |-> currentSlide.backgroundImage,
                                    titleFontSize   |-> None,
                                    coverStyle      |-> currentSlide.coverStyle]
                   IN  IF index >= n
                       THEN UNCHANGED <<slides, activeSlideId, lastEdit, clock>>
                       ELSE /\ slides' = InsertAt([slides EXCEPT ![slideIndex] =
                                                      updatedCurrentSlide],
                                                  slideIndex, newSlide)
                            /\ activeSlideId' = newSlide.id
                            /\ lastEdit' = "split"
                            /\ clock' = clock + 1
    /\ UNCHANGED <<isGenerating, error>>
    /\ UNCHANGED <<pipelineVars, exportVars, serverVars>>

\* handleSplitSlide (Editor.tsx:48-113), Date.now() = clock + 1; index is
\* the 0-based paragraph index
handleSplitSlide ==
    /\ clock < MaxTime
    /\ \E id \in SlideIds \cup {UnknownId} :
          LET slideIndex == findIndex(slides, id)
          IN  IF slideIndex = 0
              THEN UNCHANGED <<slides, activeSlideId, lastEdit, clock>>
              ELSE \E index \in 0..Len(slides[slideIndex].content) :
                   LET currentSlide == slides[slideIndex]
                       n == Len(currentSlide.content)
                       contentToKeep == SubSeq(currentSlide.content, 1, index + 1)
                       contentToMove == SubSeq(currentSlide.content, index + 2, n)
                       updatedCurrentSlide ==
                           [currentSlide EXCEPT !.content = contentToKeep]
                       newSlide == [id              |-> <<"split-slide", clock + 1>>,
                                    type            |-> "content",
                                    title           |-> currentSlide.title,
                                    content         |-> contentToMove,
                                    category        |-> currentSlide.category,
                                    tags            |-> currentSlide.tags,
                                    pageNumber      |-> None,
                                    totalPages      |-> None,
                                    backgroundImage |-> currentSlide.backgroundImage,
                                    titleFontSize   |-> None,
                                    coverStyle      |-> currentSlide.coverStyle]
                   IN  IF index >= n - 1
                       THEN UNCHANGED <<slides, activeSlideId, lastEdit, clock>>
                       ELSE /\ slides' = InsertAt([slides EXCEPT ![slideIndex] =
                                                      updatedCurrentSlide],
                                                  slideIndex, newSlide)
                            /\ activeSlideId' = newSlide.id
                            /\ lastEdit' = "split"
                            /\ clock' = clock + 1
    /\ UNCHANGED <<isGenerating, error>>
    /\ UNCHANGED <<pipelineVars, exportVars, serverVars>>

\* ------------------------------------------------------------------------
\* handleDownloadAll (App.tsx:161-218)
\* ------------------------------------------------------------------------
\* the slide lists an export is started on: the placeholder, and generated
\* lists of two and three slides
ExportLists ==
    {placeholderSlides} \cup {FinishingPass(r, 1) : r \in AppResponses}

\* exportRefs.current (App.tsx:51, 233): every slide of the list is rendered
\* in the export container and its element is kept under its id
exportRefs == SlideIds

\* `${String(i + 1).padStart(2, '0')}_${slide.type}.png`, i + 1 = position
fileName(position, type) == <<position, type>>

\* the head of the for loop for 1-based position i (lines 175-180), or the
\* code after the loop up to the await of generateAsync (lines 205-206)
LoopHead(i) ==
    /\ ei' = i
    /\ IF i <= Len(exportSlides)
       THEN /\ downloadStatus' = <<"Processing", i, Len(exportSlides)>>
            /\ exportPc' = "yield"
       ELSE /\ downloadStatus' = <<"Zipping...">>
            /\ exportPc' = "zip"

\* a finally block without setIsDownloading(false)
ExportFinallyKeepsDownloading ==
    /\ isDownloading' = isDownloading
    /\ downloadStatus' = <<>>
    /\ exportPc' = "idle"

\* the finally block (lines 213-216)
ExportFinally ==
    /\ isDownloading' = FALSE
    /\ downloadStatus' = <<>>
    /\ exportPc' = "idle"

\* lines 161-172: the Export button (enabled by line 253) is clicked and
\* the handler runs up to the await of the 100 ms timer
handleDownloadAll ==
    /\ exportPc = "idle"
    /\ ~(isDownloading \/ Len(slides) = 0)
    /\ isDownloading' = TRUE
    /\ downloadStatus' = <<"Initializing...">>
    /\ exportSlides' = slides
    /\ zipFiles' = <<>>
    /\ attempted' = <<>>
    /\ failed' = {}
    /\ saved' = None
    /\ ei' = 1
    /\ exportPc' = "settle"
    /\ UNCHANGED <<pipelineVars, appVars, serverVars>>

\* lines 172-180: the timer fires and the loop is entered
ExportSettled ==
    /\ exportPc = "settle"
    /\ LoopHead(1)
    /\ UNCHANGED <<isDownloading, exportSlides, zipFiles, attempted, failed,
                   saved>>
    /\ UNCHANGED <<pipelineVars, appVars, serverVars>>

\* lines 180-191: the 0 ms timer fires; the element of the slide is looked
\* up and toBlob is called on it, or the slide is skipped
ExportLookup ==
    /\ exportPc = "yield"
    /\ IF exportSlides[ei].id \in exportRefs
       THEN /\ attempted' = Append(attempted, ei)
            /\ exportPc' = "capture"
            /\ UNCHANGED <<ei, downloadStatus>>
       ELSE /\ LoopHead(ei + 1)
            /\ UNCHANGED attempted
    /\ UNCHANGED <<isDownloading, exportSlides, zipFiles, failed, saved>>
    /\ UNCHANGED <<pipelineVars, appVars, serverVars>>

\* lines 191-201: toBlob resolves, with a blob or with null
CaptureResolves ==
    /\ exportPc = "capture"
    /\ \E blob \in BOOLEAN :
          IF blob
          THEN /\ zipFiles' = Append(zipFiles,
                                     fileName(ei, exportSlides[ei].type))
               /\ UNCHANGED failed
          ELSE /\ failed' = failed \cup {<<ei, "no blob">>}
               /\ UNCHANGED zipFiles
    /\ LoopHead(ei + 1)
    /\ UNCHANGED <<isDownloading, exportSlides, attempted, saved>>
    /\ UNCHANGED <<pipelineVars, appVars, serverVars>>

\* CaptureRejects without the inner try: the rejection reaches the catch of
\* line 209 and ends the export
CaptureRejectsAborts ==
    /\ exportPc = "capture"
    /\ failed' = failed \cup {<<ei, "rejected">>}
    /\ error' = Some("Failed to create export.")
    /\ ExportFinally
    /\ UNCHANGED <<exportSlides, ei, zipFiles, attempted, saved>>
    /\ UNCHANGED <<slides, activeSlideId, isGenerating, clock, lastEdit>>
    /\ UNCHANGED <<pipelineVars, serverVars>>

\* lines 191 and 202-204: toBlob rejects; the catch logs it and the loop
\* goes on
CaptureRejects ==
    /\ exportPc = "capture"
    /\ failed' = failed \cup {<<ei, "rejected">>}
    /\ LoopHead(ei + 1)
    /\ UNCHANGED <<isDownloading, exportSlides, zipFiles, attempted, saved>>
    /\ UNCHANGED <<pipelineVars, appVars, serverVars>>

\* lines 206-207 and 213-216: generateAsync resolves and the archive is
\* given to saveAs
ZipResolves ==
    /\ exportPc = "zip"
    /\ saved' = Some(zipFiles)
    /\ ExportFinally
    /\ UNCHANGED <<exportSlides, ei, zipFiles, attempted, failed>>
    /\ UNCHANGED <<pipelineVars, appVars, serverVars>>

\* lines 206 and 209-216: generateAsync rejects
ZipRejects ==
    /\ exportPc = "zip"
    /\ error' = Some("Failed to create export.")
    /\ ExportFinally
    /\ UNCHANGED <<exportSlides, ei, zipFiles, attempted, failed, saved>>
    /\ UNCHANGED <<slides, activeSlideId, isGenerating, clock, lastEdit>>
    /\ UNCHANGED <<pipelineVars, serverVars>>

\* the App shows one of the slide lists and no export is running
ExportInit ==
    /\ PipelineIdle
    /\ ServerListening
    /\ ExportIdle
    /\ slides \in ExportLists
    /\ activeSlideId = slides[1].id
    /\ isGenerating = FALSE
    /\ error = None
    /\ clock = 1
    /\ lastEdit = "none"

ExportNext ==
    \/ handleDownloadAll
    \/ ExportSettled
    \/ ExportLookup
    \/ CaptureResolves
    \/ CaptureRejects
    \/ ZipResolves
    \/ ZipRejects

ExportSpec == ExportInit /\ [][ExportNext]_vars

\* the export while the user may delete slides, which takes their elements
\* out of exportRefs; every timer and promise the handler awaits settles
FairExportNext ==
    \/ ExportNext
    \/ handleDeleteSlide

FairExportSpec ==
    ExportInit /\ [][FairExportNext]_vars /\ WF_vars(ExportNext)

\* ------------------------------------------------------------------------
\* POST /api/generate (server.js:60-176)
\* ------------------------------------------------------------------------
NewLine == "\n"

\* the article texts of the requests: empty, one paragraph, two paragraphs
\* separated by one newline and by a blank line, paragraphs with spaces
\* around them separated by a line of spaces and closed by a newline, and
\* texts of newlines only and of spaces only
TextPool ==
    { <<>>,
      <<"a", "b">>,
      <<"a", "b", NewLine, "c", "d">>,
      <<"a", "b", NewLine, NewLine, "c", "d">>,
      <<" ", "a", " ", NewLine, " ", NewLine, NewLine, "c", " ", "d", NewLine>>,
      <<NewLine, NewLine>>,
      <<" ", " ">> }

\* req.body: text, and title and subtitle that may be missing or empty
RequestBodies ==
    [text : TextPool,
     title : {None, Some(""), Some("My Title")},
     subtitle : {None, Some("My Subtitle")}]

MetadataFields == {"title", "subtitle", "category", "tags", "quote"}

\* the metadata objects the model may return: every subset of the five
\* fields may be absent
MetadataObjects ==
    [title : {None, Some("AI Title")},
     subtitle : {None, Some("AI Subtitle")},
     category : {None, Some("AI Category")},
     tags : {None, Some(<<"Tag1", "Tag2">>)},
     quote : {None, Some(<<"q", "!">>)}]

\* {}
EmptyObject ==
    [title |-> None, subtitle |-> None, category |-> None, tags |-> None,
     quote |-> None]

\* what JSON.parse gives for the content of the completion: an array of at
\* most one metadata object, an object with one key holding such an array,
\* or a metadata object itself
Completions ==
    [kind : {"array", "wrapped", "object"},
     items : {<<o>> : o \in MetadataObjects}]
        \cup {[kind |-> "array", items |-> <<>>]}

\* a JSON value that is an object or a string
ObjectValue(o) == [t |-> "object", obj |-> o, str |-> ""]
StringValue(v) == [t |-> "string", obj |-> EmptyObject, str |-> v]

\* Object.values(parsed) holds one value and it is an array
\* (server.js:88): the key of a wrapper, or `tags` as the only field of a
\* metadata object
SingleArrayValue(parsed) ==
    \/ parsed.kind = "wrapped"
    \/ /\ parsed.kind = "object"
       /\ {f \in MetadataFields : parsed.items[1][f] # None} = {"tags"}

\* callDeepSeek after JSON.parse (server.js:84-92)
callDeepSeek(parsed) ==
    IF parsed.kind = "array"
    THEN [k \in 1..Len(parsed.items) |-> ObjectValue(parsed.items[k])]
    ELSE IF SingleArrayValue(parsed)
         THEN IF parsed.kind = "wrapped"
              THEN [k \in 1..Len(parsed.items) |-> ObjectValue(parsed.items[k])]
              ELSE LET tags == parsed.items[1].tags[1]
                   IN  [k \in 1..Len(tags) |-> StringValue(tags[k])]
         ELSE <<>>

\* server.js:139-143: aiResultRaw[0] || {}; callDeepSeek returns an array
metadataOf(raw) ==
    IF Len(raw) > 0 /\ (raw[1].t = "object" \/ raw[1].str # "")
    THEN raw[1]
    ELSE ObjectValue(EmptyObject)

\* metadata.field: undefined on a string
FieldOf(metadata, field) ==
    IF metadata.t = "object" THEN metadata.obj[field] ELSE None

\* text.split(/\n+/): the pieces between the runs of newlines, with an empty
\* piece before a run that opens the text and after a run that closes it
RECURSIVE SplitFrom(_, _, _)
SplitFrom(text, pos, piece) ==
    IF pos > Len(text) THEN <<piece>>
    ELSE IF text[pos] # NewLine
         THEN SplitFrom(text, pos + 1, Append(piece, text[pos]))
    ELSE IF pos > 1 /\ text[pos - 1] = NewLine
         THEN SplitFrom(text, pos + 1, piece)
    ELSE <<piece>> \o SplitFrom(text, pos + 1, <<>>)

splitNewlines(text) == SplitFrom(text, 1, <<>>)

\* array.filter(line => line.trim().length > 0)
RECURSIVE filterNonBlank(_)
filterNonBlank(lines) ==
    IF lines = <<>> THEN <<>>
    ELSE (IF TrimIsEmpty(Head(lines)) THEN <<>> ELSE <<Head(lines)>>)
         \o filterNonBlank(Tail(lines))

\* text.trim()
Trim(text) ==
    LET inked == {k \in 1..Len(text) : text[k] \notin Whitespace}
    IN  IF inked = {} THEN <<>>
        ELSE SubSeq(text, CHOOSE k \in inked : \A j \in inked : k <= j,
                          CHOOSE k \in inked : \A j \in inked : k >= j)

\* rawParagraphs that trims the pieces it keeps
rawParagraphsTrimmed(text) ==
    LET kept == filterNonBlank(splitNewlines(text))
    IN  [k \in 1..Len(kept) |-> Trim(kept[k])]

\* server.js:147
rawParagraphs(text) == filterNonBlank(splitNewlines(text))

\* v || d for an optional text v
OrElseText(v, d) == IF v # None /\ Len(v[1]) > 0 THEN v[1] ELSE d

SummaryText == <<"S", "u", "m", "m", "a", "r", "y">>

\* the default tag of server.js:156, two characters written by code point
DefaultTags == <<"U+5E72 U+8D27">>

\* coverSlide whose quote does not fall back on the first paragraph
coverSlideNoParagraph(metadata, safeTitle, safeSubtitle, paragraphs) ==
    [type     |-> "cover",
     title    |-> OrElse(FieldOf(metadata, "title"), safeTitle),
     subtitle |-> OrElse(FieldOf(metadata, "subtitle"), safeSubtitle),
     category |-> Some(OrElse(FieldOf(metadata, "category"), "Knowledge")),
     tags     |-> IF FieldOf(metadata, "tags") # None
                  THEN FieldOf(metadata, "tags") ELSE Some(DefaultTags),
     content  |-> <<OrElseText(FieldOf(metadata, "quote"), SummaryText)>>]

\* server.js:151-158
coverSlide(metadata, safeTitle, safeSubtitle, paragraphs) ==
    [type     |-> "cover",
     title    |-> OrElse(FieldOf(metadata, "title"), safeTitle),
     subtitle |-> OrElse(FieldOf(metadata, "subtitle"), safeSubtitle),
     category |-> Some(OrElse(FieldOf(metadata, "category"), "Knowledge")),
     tags     |-> IF FieldOf(metadata, "tags") # None
                  THEN FieldOf(metadata, "tags") ELSE Some(DefaultTags),
     content  |-> <<OrElseText(FieldOf(metadata, "quote"),
                               IF paragraphs # <<>> THEN paragraphs[1]
                               ELSE SummaryText)>>]

\* server.js:161-166
contentSlides(paragraphs, category) ==
    [k \in 1..Len(paragraphs) |->
        [type |-> "content", title |-> "", category |-> category,
         tags |-> None, content |-> <<paragraphs[k]>>]]

\* res.status(code).json({ error }) and res.json(slides)
ErrorResponse(code, message) ==
    [status |-> code, error |-> Some(message), slides |-> <<>>]

OkResponse(finalResult) ==
    [status |-> 200, error |-> None, slides |-> finalResult]

\* server.js:101-136: the request arrives; without text it is answered 400,
\* otherwise callDeepSeek is awaited
PostGenerate ==
    /\ serverPc = "listening"
    /\ \E body \in RequestBodies :
          /\ reqBody' = body
          /\ IF body.text = <<>>
             THEN /\ res' = ErrorResponse(400, "Text is required")
                  /\ serverPc' = "responded"
             ELSE /\ res' = res
                  /\ serverPc' = "callDeepSeek"
    /\ UNCHANGED <<completion, aiResultRaw, country, calls>>
    /\ UNCHANGED <<pipelineVars, appVars, exportVars>>

\* server.js:136-170: callDeepSeek returns and the slides are sent
DeepSeekReturns ==
    /\ serverPc = "callDeepSeek"
    /\ \E parsed \in Completions :
          LET raw == callDeepSeek(parsed)
              metadata == metadataOf(raw)
              safeTitle == OrElse(reqBody.title, "Main Title")
              safeSubtitle == OrElse(reqBody.subtitle, "Summary")
              paragraphs == rawParagraphs(reqBody.text)
              cover == coverSlide(metadata, safeTitle, safeSubtitle, paragraphs)
          IN  /\ completion' = Some(parsed)
              /\ aiResultRaw' = raw
              /\ res' = OkResponse(<<cover>>
                                   \o contentSlides(paragraphs, cover.category))
    /\ serverPc' = "responded"
    /\ UNCHANGED <<reqBody, country, calls>>
    /\ UNCHANGED <<pipelineVars, appVars, exportVars>>

\* server.js:62, 93-96 and 172-175: callDeepSeek throws (no key, a failed
\* call, content that is not JSON or is null) and the handler answers 500
DeepSeekThrows ==
    /\ serverPc = "callDeepSeek"
    /\ \E message \in {"Missing DEEPSEEK_API_KEY",
                        "Failed to call or parse DeepSeek API"} :
          res' = ErrorResponse(500, message)
    /\ serverPc' = "responded"
    /\ UNCHANGED <<reqBody, completion, aiResultRaw, country, calls>>
    /\ UNCHANGED <<pipelineVars, appVars, exportVars>>

ServerInit == PipelineIdle /\ AppStart /\ ServerListening

ServerNext ==
    \/ PostGenerate
    \/ DeepSeekReturns
    \/ DeepSeekThrows

ServerSpec == ServerInit /\ [][ServerNext]_vars

\* ------------------------------------------------------------------------
\* The region-routed server: POST /api/generate with geoip and two providers
\* ------------------------------------------------------------------------
\* what geoip.lookup(cleanIp) gives: null, or a record with a country
GeoLookups == {None, Some("CN"), Some("US"), Some("JP")}

\* process.env.DEFAULT_REGION: unset, or a country
DefaultRegions == {None, Some("CN"), Some("US")}

\* the country of the request: geo.country, or else DEFAULT_REGION || 'US'
countryOf(geo, defaultRegion) ==
    IF geo # None THEN geo[1] ELSE OrElse(defaultRegion, "US")

\* what callGemini returns: JSON.parse of the response text, an array under
\* the response schema, or of "[]" when the text is empty
GeminiCompletions == {c \in Completions : c.kind = "array"}

callGemini(parsed) ==
    [k \in 1..Len(parsed.items) |-> ObjectValue(parsed.items[k])]

\* the error.message a failed call leaves: the missing key, the message of
\* the SDK or of JSON.parse, or none
DeepSeekErrors ==
    {Some("Missing DEEPSEEK_API_KEY"), Some("Failed to parse DeepSeek JSON"),
     Some("Connection error.")}

GeminiErrors ==
    {Some("Missing GEMINI_API_KEY"), Some("Connection error."), Some("")}

\* the slide list built from the metadata and the text of the request
finalResult(raw, body) ==
    LET metadata == metadataOf(raw)
        safeTitle == OrElse(body.title, "Main Title")
        safeSubtitle == OrElse(body.subtitle, "Summary")
        paragraphs == rawParagraphs(body.text)
        cover == coverSlide(metadata, safeTitle, safeSubtitle, paragraphs)
    IN  <<cover>> \o contentSlides(paragraphs, cover.category)

\* the request arrives: without text it is answered 400, otherwise its
\* country is resolved and the provider of the country is awaited
RoutedPostGenerate ==
    /\ serverPc = "listening"
    /\ \E body \in RequestBodies, geo \in GeoLookups,
          defaultRegion \in DefaultRegions :
          /\ reqBody' = body
          /\ IF body.text = <<>>
             THEN /\ res' = ErrorResponse(400, "Text is required")
                  /\ serverPc' = "responded"
                  /\ country' = country
             ELSE /\ res' = res
                  /\ country' = Some(countryOf(geo, defaultRegion))
                  /\ serverPc' = IF countryOf(geo, defaultRegion) = "CN"
                                 THEN "callDeepSeek" ELSE "callGemini"
    /\ UNCHANGED <<completion, aiResultRaw, calls>>
    /\ UNCHANGED <<pipelineVars, appVars, exportVars>>

\* callDeepSeek returns and the slides are sent
RoutedDeepSeekReturns ==
    /\ serverPc = "callDeepSeek"
    /\ \E parsed \in Completions :
          /\ completion' = Some(parsed)
          /\ aiResultRaw' = callDeepSeek(parsed)
          /\ res' = OkResponse(finalResult(callDeepSeek(parsed), reqBody))
    /\ calls' = Append(calls, [provider |-> "DeepSeek", ok |-> TRUE])
    /\ serverPc' = "responded"
    /\ UNCHANGED <<reqBody, country>>
    /\ UNCHANGED <<pipelineVars, appVars, exportVars>>

\* callDeepSeek throws and answers 500 at once
RoutedDeepSeekThrowsAnswers ==
    /\ serverPc = "callDeepSeek"
    /\ \E e \in DeepSeekErrors :
          res' = ErrorResponse(500, OrElse(e, "Internal Server Error"))
    /\ calls' = Append(calls, [provider |-> "DeepSeek", ok |-> FALSE])
    /\ serverPc' = "responded"
    /\ UNCHANGED <<reqBody, completion, aiResultRaw, country>>
    /\ UNCHANGED <<pipelineVars, appVars, exportVars>>

\* callDeepSeek throws: the inner catch logs the error and awaits callGemini
RoutedDeepSeekThrows ==
    /\ serverPc = "callDeepSeek"
    /\ calls' = Append(calls, [provider |-> "DeepSeek", ok |-> FALSE])
    /\ serverPc' = "callGemini"
    /\ UNCHANGED <<reqBody, completion, aiResultRaw, res, country>>
    /\ UNCHANGED <<pipelineVars, appVars, exportVars>>

\* callGemini returns and the slides are sent
GeminiReturns ==
    /\ serverPc = "callGemini"
    /\ \E parsed \in GeminiCompletions :
          /\ completion' = Some(parsed)
          /\ aiResultRaw' = callGemini(parsed)
          /\ res' = OkResponse(finalResult(callGemini(parsed), reqBody))
    /\ calls' = Append(calls, [provider |-> "Gemini", ok |-> TRUE])
    /\ serverPc' = "responded"
    /\ UNCHANGED <<reqBody, country>>
    /\ UNCHANGED <<pipelineVars, appVars, exportVars>>

\* callGemini throws and the outer catch answers 500 with the message
GeminiThrows ==
    /\ serverPc = "callGemini"
    /\ \E e \in GeminiErrors :
          res' = ErrorResponse(500, OrElse(e, "Internal Server Error"))
    /\ calls' = Append(calls, [provider |-> "Gemini", ok |-> FALSE])
    /\ serverPc' = "responded"
    /\ UNCHANGED <<reqBody, completion, aiResultRaw, country>>
    /\ UNCHANGED <<pipelineVars, appVars, exportVars>>

RoutedInit == PipelineIdle /\ AppStart /\ ServerListening

RoutedNext ==
    \/ RoutedPostGenerate
    \/ RoutedDeepSeekReturns
    \/ RoutedDeepSeekThrows
    \/ GeminiReturns
    \/ GeminiThrows

RoutedSpec == RoutedInit /\ [][RoutedNext]_vars

\* ------------------------------------------------------------------------
\* Specification of the pipeline
\* ------------------------------------------------------------------------
Init == StartOn(GeneratedInputs)

Next ==
    \/ PassThrough
    \/ BeginReflow
    \/ ReflowHeading
    \/ ReflowLoad
    \/ ReflowSplit
    \/ ReflowPush
    \/ BeginPaginate
    \/ PageFit
    \/ PageHeading
    \/ PageFlush
    \/ PageSplit
    \/ FinalFlush
    \/ Finish

Spec == Init /\ [][Next]_vars

\* the pipeline is synchronous code: it runs on until it returns
FairInit == StartOn(TerminationInputs)

FairSpec == FairInit /\ [][Next]_vars /\ WF_vars(Next)

\* ------------------------------------------------------------------------
\* Vocabulary of the properties
\* ------------------------------------------------------------------------
\* the slides the pagination loop runs on (the guard of line 81 is false)
IsPaginated(k) ==
    /\ generatedData[k].type = "content"
    /\ Len(generatedData[k].content) > 0

\* positions in paginatedSlides of the slides pushed for slide k, and the
\* text of their paragraphs in output order
RECURSIVE PageTextFrom(_, _)
PageTextFrom(k, j) ==
    IF j > Len(paginatedSlides) THEN <<>>
    ELSE (IF origin[j] = k THEN Join(paginatedSlides[j].content) ELSE <<>>)
         \o PageTextFrom(k, j + 1)

PageText(k) == PageTextFrom(k, 1)

PagesOf(k) == {j \in 1..Len(paginatedSlides) : origin[j] = k}

\* pages pushed by the pagination loop
EmittedPages == {j \in 1..Len(paginatedSlides) : IsPaginated(origin[j])}

RECURSIVE SumCost(_)
SumCost(paras) ==
    IF paras = <<>> THEN 0 ELSE getLineCost(Head(paras)) + SumCost(Tail(paras))

\* the slide has been visited by the forEach
Visited(k) == k \in 1..Len(generatedData) /\ k < slideIdx

\* the reflowed sequence held by the pagination loop is the value of
\* reflowContent on the content of the slide
ReflowAgrees ==
    pc = "page" => reflowedContent = reflowContent(slide.content)

\* ------------------------------------------------------------------------
\* Properties of the reflow and pagination pipeline
\* ------------------------------------------------------------------------
\* C1: for every content slide that was reflowed and paginated, the
\* paragraph fragments of its pages, concatenated in output order, are
\* exactly the concatenation of its input paragraphs.
C1_VerbatimPreservation ==
    \A k \in 1..Len(generatedData) :
        (Visited(k) /\ IsPaginated(k))
            => PageText(k) = Join(generatedData[k].content)

\* C2: every page pushed by the pagination loop costs at most
\* MAX_LINES_PER_PAGE lines, unless it is one paragraph whose own cost is
\* over the budget; an over-budget page holds one paragraph.
C2_BudgetRespect ==
    \A j \in EmittedPages :
        LET page == paginatedSlides[j].content
        IN  \/ SumCost(page) <= MAX_LINES_PER_PAGE
            \/ /\ Len(page) = 1
               /\ getLineCost(page[1]) > MAX_LINES_PER_PAGE

\* C2 witness: the loop is over, one page is a lone paragraph over the
\* budget and another page fills the budget exactly.
C2_Witness ==
    /\ pc = "done"
    /\ \E j \in EmittedPages :
          SumCost(paginatedSlides[j].content) > MAX_LINES_PER_PAGE
    /\ \E j \in EmittedPages :
          SumCost(paginatedSlides[j].content) = MAX_LINES_PER_PAGE

\* C3: the pagination loop keeps the text of the reflowed sequence: while
\* it runs, the pages pushed so far, the current chunk and the paragraphs
\* not yet visited concatenate to the reflowed text, and once the slide is
\* done its pages concatenate to the reflowed text.
C3_PaginationKeepsText ==
    /\ pc = "page" =>
          PageText(slideIdx) \o Join(currentChunk)
              \o Join(SubSeq(reflowedContent, pi, Len(reflowedContent)))
            = Join(reflowedContent)
    /\ \A k \in 1..Len(generatedData) :
          (Visited(k) /\ IsPaginated(k))
              => PageText(k) = Join(reflowContent(generatedData[k].content))

\* C3 witness: a slide was cut at a character offset, so that its pages
\* hold more fragments than the reflowed sequence has paragraphs.
C3_Witness ==
    /\ pc = "slide"
    /\ slideIdx > 1
    /\ IsPaginated(slideIdx - 1)
    /\ Cardinality(PagesOf(slideIdx - 1)) >= 2
    /\ \E j \in PagesOf(slideIdx - 1) :
          \E q \in 1..Len(paginatedSlides[j].content) :
              \A r \in 1..Len(reflowedContent) :
                  paginatedSlides[j].content[q] # reflowedContent[r]

C6_ReflowIdempotent ==
    pc = "page" => reflowContent(reflowedContent) = reflowedContent

\* C6 witness: reflowContent has returned a sequence that differs from its
\* input and still holds a paragraph over MAX_CHARS_PER_PARA.
C6_Witness ==
    /\ pc = "page"
    /\ reflowedContent # slide.content
    /\ \E r \in 1..Len(reflowedContent) :
          Len(reflowedContent[r]) > MAX_CHARS_PER_PARA

\* C7: the returned slides carry the page numbers 1..N in order and the
\* total N, the cover included.
C7_Numbering ==
    pc = "done" =>
        \A k \in 1..Len(finalSlides) :
            /\ finalSlides[k].pageNumber = Some(k)
            /\ finalSlides[k].totalPages = Some(Len(finalSlides))

\* C7 witness: the slides returned start with a cover and one content slide
\* became several pages.
C7_Witness ==
    /\ pc = "done"
    /\ Len(finalSlides) >= 4
    /\ finalSlides[1].type = "cover"
    /\ Len(finalSlides) > Len(generatedData)

\* C9: from every response the forEach, reflowContent and the pagination
\* loop run to the return of line 143.
C9_Terminates == <>(pc = "done")

\* C9 witness: the run is over for a content that holds an empty string
\* and a string of boundary characters only.
C9_Witness ==
    /\ pc = "done"
    /\ \E k \in 1..Len(generatedData) :
          /\ Len(generatedData[k].content) = 2
          /\ generatedData[k].content[1] = <<>>
          /\ Len(generatedData[k].content[2]) > MAX_CHARS_PER_PARA
          /\ \A q \in 1..Len(generatedData[k].content[2]) :
                generatedData[k].content[2][q] \in Boundary

C14_NonContentPassesThrough ==
    /\ \A k \in 1..Len(generatedData) :
          (Visited(k) /\ generatedData[k].type # "content")
              => /\ Cardinality(PagesOf(k)) = 1
                 /\ \A j \in PagesOf(k) : paginatedSlides[j] = generatedData[k]
    /\ \A i, j \in 1..Len(origin) : i < j => origin[i] <= origin[j]
    /\ pc = "done" =>
          /\ Len(finalSlides) = Len(paginatedSlides)
          /\ \A j \in 1..Len(finalSlides) :
                /\ finalSlides[j].type = paginatedSlides[j].type
                /\ finalSlides[j].content = paginatedSlides[j].content

\* C14 witness: the run is over; a slide that is not a content slide, with
\* a paragraph of two sentences over MAX_CHARS_PER_PARA and paragraphs that
\* cost more than a page, came after a content slide that became several
\* pages.
C14_Witness ==
    /\ pc = "done"
    /\ \E k \in 2..Len(generatedData) :
          /\ generatedData[k].type # "content"
          /\ WhileContinues(generatedData[k].content[1])
          /\ SumCost(generatedData[k].content) > MAX_LINES_PER_PAGE
          /\ Cardinality(PagesOf(k - 1)) >= 2

\* the sentence spans of every paragraph of the content have at most
\* MAX_CHARS_PER_PARA characters
SpansWithinLimit(content) ==
    \A i \in 1..Len(content) :
        LET sentences == splitIntoSentences(content[i])
        IN  \A n \in 1..Len(sentences) :
                Len(sentences[n]) <= MAX_CHARS_PER_PARA

Overflows == InPageLoop /\ currentLinesUsed + cost > MAX_LINES_PER_PAGE

\* the content of the page pushed last
LastPage(list) == list[Len(list)].content

\* C16: a paragraph that does not start with `#`, overflows the page and
\* finds at least 2 lines left is cut at the character offset
\* (remaining - 1) * CHARS_PER_LINE: the offset lies strictly inside the
\* paragraph, the characters before it are appended to the chunk, which is
\* pushed as a page, and the characters from it on are the only element of
\* the new chunk.
C16_SplitAtOffset ==
    [][(Overflows /\ ~IsHeading(paragraph) /\ remainingLines >= 2)
          => LET offset == (remainingLines - 1) * CHARS_PER_LINE
                 part1 == SubSeq(paragraph, 1, offset)
                 part2 == SubSeq(paragraph, offset + 1, Len(paragraph))
             IN  /\ 0 < offset
                 /\ offset < Len(paragraph)
                 /\ Len(part1) = offset
                 /\ part2 # <<>>
                 /\ part1 \o part2 = paragraph
                 /\ Len(paginatedSlides') = Len(paginatedSlides) + 1
                 /\ LastPage(paginatedSlides') = Append(currentChunk, part1)
                 /\ currentChunk' = <<part2>>
                 /\ pi' = pi + 1]_vars

\* C16 witness: the paragraph just visited was cut: the page pushed last
\* for the slide held something before and ends with a fragment of whole
\* lines, the chunk holds one fragment, neither is empty and together they
\* are the paragraph.
C16_Witness ==
    /\ pc = "page"
    /\ pi > 1
    /\ Len(currentChunk) = 1
    /\ currentChunk[1] # <<>>
    /\ paginatedSlides # <<>>
    /\ origin[Len(origin)] = slideIdx
    /\ LET last == LastPage(paginatedSlides)
           part1 == last[Len(last)]
       IN  /\ Len(last) >= 2
           /\ part1 # <<>>
           /\ Len(part1) % CHARS_PER_LINE = 0
           /\ part1 \o currentChunk[1] = reflowedContent[pi - 1]

\* C17: a paragraph that does not start with `#`, overflows the page and
\* finds at most 1 line left is not cut: the chunk, which is not empty, is
\* pushed as a page without it, the paragraph is the only element of the
\* new chunk and the running total is its cost.
C17_NoSplitOnLastLine ==
    [][(Overflows /\ ~IsHeading(paragraph) /\ remainingLines <= 1)
          => /\ currentChunk # <<>>
             /\ Len(paginatedSlides') = Len(paginatedSlides) + 1
             /\ LastPage(paginatedSlides') = currentChunk
             /\ currentChunk' = <<paragraph>>
             /\ currentLinesUsed' = cost
             /\ pi' = pi + 1]_vars

\* C17 witness: the page pushed last for the slide left exactly one line
\* free, and the chunk holds the whole paragraph just visited, which does
\* not start with `#`, with the running total at its cost.
C17_Witness ==
    /\ pc = "page"
    /\ pi > 1
    /\ currentChunk = <<reflowedContent[pi - 1]>>
    /\ ~IsHeading(currentChunk[1])
    /\ currentLinesUsed = getLineCost(currentChunk[1])
    /\ currentLinesUsed > 0
    /\ paginatedSlides # <<>>
    /\ origin[Len(origin)] = slideIdx
    /\ SumCost(LastPage(paginatedSlides)) = MAX_LINES_PER_PAGE - 1

\* C18: a paragraph that starts with `#` and overflows the page is not cut:
\* the chunk is pushed as a page if and only if it is not empty, the
\* paragraph is the only element of the new chunk and the running total is
\* its cost.
C18_HeadingOverflow ==
    [][(Overflows /\ IsHeading(paragraph))
          => /\ IF currentChunk # <<>>
                THEN /\ Len(paginatedSlides') = Len(paginatedSlides) + 1
                     /\ LastPage(paginatedSlides') = currentChunk
                ELSE paginatedSlides' = paginatedSlides
             /\ currentChunk' = <<paragraph>>
             /\ currentLinesUsed' = cost
             /\ pi' = pi + 1]_vars

\* C18 witness: the reflowed sequence is two `#` paragraphs, the first one
\* over the budget of a page; the first overflowed the empty chunk and no
\* page was pushed, the second overflowed and the first was pushed alone.
C18_Witness ==
    /\ pc = "page"
    /\ pi = 3
    /\ IsHeading(reflowedContent[1])
    /\ getLineCost(reflowedContent[1]) > MAX_LINES_PER_PAGE
    /\ IsHeading(reflowedContent[2])
    /\ currentChunk = <<reflowedContent[2]>>
    /\ currentLinesUsed = getLineCost(reflowedContent[2])
    /\ Cardinality(PagesOf(slideIdx)) = 1
    /\ LastPage(paginatedSlides) = <<reflowedContent[1]>>

\* the cost of a string as C19 states it, read character by
\* character
ExpectedCost(text) ==
    LET has(prefix) ==
            /\ Len(text) >= Len(prefix)
            /\ \A k \in 1..Len(prefix) : text[k] = prefix[k]
    IN  IF has(<<"#", "#", " ">>) THEN 3
        ELSE IF has(<<"#", "#", "#", " ">>) THEN 2
        ELSE IF \A k \in 1..Len(text) : text[k] \in Whitespace THEN 0
        ELSE (CHOOSE n \in 1..Len(text) :
                 /\ n * CHARS_PER_LINE >= Len(text)
                 /\ (n - 1) * CHARS_PER_LINE < Len(text)) + 1

RECURSIVE SumExpected(_)
SumExpected(paras) ==
    IF paras = <<>> THEN 0
    ELSE ExpectedCost(Head(paras)) + SumExpected(Tail(paras))

\* C19: getLineCost is 3 for a string that starts with `## `, 2 for one
\* that starts with `### `, 0 for an empty or blank string and
\* ceil(length / CHARS_PER_LINE) + 1 for any other string; the running
\* total of the pagination loop is the sum of these costs over the chunk.
C19_LineCost ==
    pc = "page" =>
        /\ \A r \in 1..Len(reflowedContent) :
              getLineCost(reflowedContent[r]) = ExpectedCost(reflowedContent[r])
        /\ \A q \in 1..Len(currentChunk) :
              getLineCost(currentChunk[q]) = ExpectedCost(currentChunk[q])
        /\ currentLinesUsed = SumExpected(currentChunk)

\* C19 witness: the chunk holds a `### ` heading, costed 2, and a string that
\* does not fill its last line, and a fragment cut by the loop was costed.
C19_Witness ==
    /\ pc = "page"
    /\ Len(currentChunk) >= 2
    /\ StartsWith(currentChunk[1], <<"#", "#", "#", " ">>)
    /\ \E q \in 1..Len(currentChunk) :
          /\ ~IsHeading(currentChunk[q])
          /\ Len(currentChunk[q]) % CHARS_PER_LINE # 0
    /\ currentLinesUsed > 2

\* C20: a paragraph whose cost is exactly the number of lines left is
\* appended whole to the chunk and no page is pushed; a paragraph of
\* (MAX_LINES_PER_PAGE - 1) * CHARS_PER_LINE = 396 characters that finds
\* the chunk empty becomes its only element, whole, with the page full.
C20_ExactFit ==
    [][/\ (InPageLoop /\ cost = remainingLines)
            => /\ currentChunk' = Append(currentChunk, paragraph)
               /\ paginatedSlides' = paginatedSlides
               /\ currentLinesUsed' = MAX_LINES_PER_PAGE
               /\ pi' = pi + 1
       /\ (InPageLoop /\ currentChunk = <<>> /\ ~IsHeading(paragraph)
              /\ Len(paragraph) = (MAX_LINES_PER_PAGE - 1) * CHARS_PER_LINE)
            => /\ currentChunk' = <<paragraph>>
               /\ paginatedSlides' = paginatedSlides
               /\ currentLinesUsed' = MAX_LINES_PER_PAGE]_vars

\* C20 witness: the paragraph just visited found a chunk that was not empty
\* and exactly as many lines left as it costs, and was appended whole: the
\* chunk holds it last, every element of the chunk costs lines, the page is
\* full and no page was pushed for the slide.
C20_Witness ==
    /\ pc = "page"
    /\ pi > 1
    /\ Len(currentChunk) >= 2
    /\ currentChunk[Len(currentChunk)] = reflowedContent[pi - 1]
    /\ \A q \in 1..Len(currentChunk) : getLineCost(currentChunk[q]) > 0
    /\ currentLinesUsed = MAX_LINES_PER_PAGE
    /\ PagesOf(slideIdx) = {}

C30_NoEmptyPage ==
    /\ \A j \in 1..Len(paginatedSlides) :
          IsPaginated(origin[j]) => paginatedSlides[j].content # <<>>
    /\ \A j \in 1..Len(finalSlides) :
          IsPaginated(origin[j]) => finalSlides[j].content # <<>>

\* C30 witness: a content slide has been spread over three pages or more,
\* each with a paragraph, and the slides are returned.
C30_Witness ==
    /\ pc = "done"
    /\ \E k \in 1..Len(generatedData) :
          /\ IsPaginated(k)
          /\ Cardinality({j \in 1..Len(finalSlides) : origin[j] = k}) >= 3
          /\ \A j \in 1..Len(finalSlides) :
                origin[j] = k => Len(finalSlides[j].content) >= 1

\* the category is missing or the empty string
NoCategory(s) == s.category \in {None, Some("")}

\* the covers of the list at the least distance from position k
NearestCovers(list, k) ==
    {c \in CoverIndexes(list) :
        \A d \in CoverIndexes(list) :
            (IF c > k THEN c - k ELSE k - c) <= (IF d > k THEN d - k ELSE k - d)}

AppInit == PipelineIdle /\ AppStart /\ ServerListening

AppNext ==
    \/ GenerateStart
    \/ GenerateResolve
    \/ GenerateReject
    \/ SelectSlide
    \/ handleDeleteSlide
    \/ handleAddSlide
    \/ handleSplitSlide

AppSpec == AppInit /\ [][AppNext]_vars

\* ------------------------------------------------------------------------
\* Properties of the slide list of App
\* ------------------------------------------------------------------------
\* the numbering reindexSlides gives: the rank among the slides that are
\* not covers, and their number
Renumbered(list) ==
    LET nonCover(n) == {j \in 1..n : list[j].type # "cover"}
    IN  \A k \in 1..Len(list) :
            /\ list[k].totalPages = Some(Cardinality(nonCover(Len(list))))
            /\ list[k].type # "cover"
                   => list[k].pageNumber = Some(Cardinality(nonCover(k)))

\* C8: after an edit by handleAddSlide, handleDeleteSlide or
\* handleSplitSlide, every slide that is not a cover carries its rank among
\* those slides as pageNumber and every slide carries their number as
\* totalPages.
C8_EditsRenumber ==
    lastEdit \in {"add", "delete", "split"} => Renumbered(slides)

\* C26: after any sequence of generate, add, delete, split and select,
\* activeSlideId is null or the id of a slide of the list, and it is null
\* only when the list is empty.
C26_ActiveSlideInList ==
    /\ activeSlideId \in SlideIds \cup {NullId}
    /\ activeSlideId = NullId => slides = <<>>

\* C26 witness: after a generation and an added page every slide has been
\* deleted and activeSlideId is null.
C26_Witness ==
    /\ lastEdit = "delete"
    /\ clock >= 2
    /\ slides = <<>>
    /\ activeSlideId = NullId

\* the slide but for its numbering
Unnumbered(s) == [s EXCEPT !.pageNumber = None, !.totalPages = None]

\* C27: when handleDeleteSlide has brought the list back to the slides of a
\* generation, as it does when the page handleAddSlide inserted into a
\* freshly generated list is deleted again, every slide has the pageNumber
\* and totalPages the finishing pass gave it.
C27_SchemesAgree ==
    lastEdit = "delete" =>
        \A response \in AppResponses, now \in 1..MaxTime :
            LET generated == FinishingPass(response, now)
            IN  (/\ Len(slides) = Len(generated)
                 /\ \A k \in 1..Len(slides) :
                        Unnumbered(slides[k]) = Unnumbered(generated[k]))
                    => \A k \in 1..Len(slides) :
                          /\ slides[k].pageNumber = generated[k].pageNumber
                          /\ slides[k].totalPages = generated[k].totalPages

\* handleSplitSlide has changed the list in this step
SlideIsSplit == lastEdit' = "split" /\ clock' # clock

\* C28: a step of handleSplitSlide that changes the list replaces one slide
\* by two adjacent slides, the first with the id of the original, whose
\* contents are both non-empty and concatenate to the content of the
\* original, and leaves every other slide and the order of the list as they
\* are; so a split at the last paragraph or past it changes nothing.
C28_SplitInTwo ==
    [][ SlideIsSplit =>
          /\ Len(slides') = Len(slides) + 1
          /\ \E p \in 1..Len(slides) :
                /\ \A j \in 1..(p - 1) : slides'[j] = slides[j]
                /\ \A j \in (p + 1)..Len(slides) : slides'[j + 1] = slides[j]
                /\ slides'[p].id = slides[p].id
                /\ slides'[p + 1].id \notin SlideIds
                /\ slides'[p].content # <<>>
                /\ slides'[p + 1].content # <<>>
                /\ slides'[p].content \o slides'[p + 1].content
                      = slides[p].content ]_vars

\* C28 witness: the last edit split a generated slide of two paragraphs:
\* the new slide follows the original and each holds one paragraph.
C28_Witness ==
    /\ lastEdit = "split"
    /\ \E p \in 1..(Len(slides) - 1) :
          /\ slides[p].id[1] = "slide"
          /\ slides[p + 1].id[1] = "split-slide"
          /\ Len(slides[p].content) = 1
          /\ Len(slides[p + 1].content) = 1

\* an attempt of handleGenerate ends in this step: with new slides, whose
\* ids carry a later Date.now(), or without
GenerationSucceeds == isGenerating /\ ~isGenerating' /\ clock' # clock
GenerationFails == isGenerating /\ ~isGenerating' /\ clock' = clock

\* C25: the step that ends a failed attempt of handleGenerate leaves the
\* slide list and activeSlideId as they are, leaves an error message set
\* and isGenerating false; the step that ends a successful attempt, also
\* one after a failed attempt, leaves no error set.
C25_FailureKeepsSlides ==
    [][ /\ GenerationFails =>
              /\ slides' = slides
              /\ activeSlideId' = activeSlideId
              /\ error' \in {Some(m) : m \in GenerateErrors}
              /\ ~isGenerating'
        /\ GenerationSucceeds =>
              /\ error' = None
              /\ slides' # slides ]_vars

\* C25 witness: an attempt that followed a successful generation has
\* failed; the generated slides are still the list and the error is set.
C25_Witness ==
    /\ ~isGenerating
    /\ error = Some("Failed to fetch")
    /\ clock = 1
    /\ lastEdit = "generate"
    /\ Len(slides) = 3
    /\ activeSlideId = slides[1].id

\* ------------------------------------------------------------------------
\* Properties of handleDownloadAll
\* ------------------------------------------------------------------------
\* the positions whose capture gave no file
FailedAt == {f[1] : f \in failed}

\* the files of the slides of the export at the positions of S, in order
ExportFiles(S) ==
    LET nth(n) == CHOOSE k \in S : Cardinality({j \in S : j <= k}) = n
    IN  [n \in 1..Cardinality(S) |->
            fileName(nth(n), exportSlides[nth(n)].type)]

\* an export was started and has ended
ExportEnded == exportPc = "idle" /\ exportSlides # <<>>

\* a click on Export starts the handler in this step
ExportStarts == exportPc # "settle" /\ exportPc' = "settle"

\* the slides of the running export that were skipped for want of an element
Skipped == {k \in 1..(ei - 1) : \A a \in 1..Len(attempted) : attempted[a] # k}

\* C29: once an export has started, isDownloading returns to false and
\* downloadStatus to the empty string, whether captures succeed or fail,
\* slides have no element or the archive cannot be generated; and no export
\* starts while isDownloading is true.
C29_ExportEnds ==
    /\ isDownloading ~> (~isDownloading /\ downloadStatus = <<>>)
    /\ [][isDownloading => ~ExportStarts]_vars

\* C29 witness: an export has ended in which a capture failed, a slide had
\* no element and the archive could not be generated; isDownloading and
\* downloadStatus are reset.
C29_Witness ==
    /\ ExportEnded
    /\ ~isDownloading
    /\ downloadStatus = <<>>
    /\ failed # {}
    /\ Skipped # {}
    /\ saved = None
    /\ error = Some("Failed to create export.")

RoutedAnswered == serverPc = "responded" /\ country # None

Providers(cs) == [k \in 1..Len(cs) |-> cs[k].provider]

\* C24: for a request resolved to CN DeepSeek is called first and Gemini
\* only after the DeepSeek call has failed, and then it is called; for every
\* other country only Gemini is called; the answer is 500 exactly when the
\* last provider called failed and is otherwise 200 with the slide list, a
\* cover slide first.
C24_RegionRouting ==
    /\ country = Some("CN") =>
          /\ Providers(calls) \in {<<>>, <<"DeepSeek">>, <<"DeepSeek", "Gemini">>}
          /\ Len(calls) = 2 => ~calls[1].ok
    /\ country \notin {None, Some("CN")} =>
          Providers(calls) \in {<<>>, <<"Gemini">>}
    /\ RoutedAnswered =>
          /\ calls # <<>>
          /\ (country = Some("CN") /\ ~calls[1].ok) => Len(calls) = 2
          /\ res.status = 500 <=> ~calls[Len(calls)].ok
          /\ res.status = 500 => res.error # None /\ res.slides = <<>>
          /\ res.status # 500 =>
                /\ res.status = 200
                /\ res.error = None
                /\ res.slides # <<>>
                /\ res.slides[1].type = "cover"

\* C24 witness: a request from CN whose DeepSeek call failed and whose
\* Gemini call succeeded is answered with the slides.
C24_Witness ==
    /\ RoutedAnswered
    /\ country = Some("CN")
    /\ calls = <<[provider |-> "DeepSeek", ok |-> FALSE],
                 [provider |-> "Gemini", ok |-> TRUE]>>
    /\ res.status = 200
    /\ Len(res.slides) >= 2

\* ------------------------------------------------------------------------
\* Properties of POST /api/generate
\* ------------------------------------------------------------------------
\* callDeepSeek has returned and the response has been sent
Answered == serverPc = "responded" /\ completion # None

\* the pieces of the text between newlines that hold a character other than
\* white space, by the position of their first character
PieceStarts(text) ==
    {a \in 1..Len(text) :
        /\ text[a] # NewLine
        /\ a = 1 \/ text[a - 1] = NewLine}

PieceEnd(text, a) ==
    CHOOSE b \in a..Len(text) :
        /\ \A k \in a..b : text[k] # NewLine
        /\ b = Len(text) \/ text[b + 1] = NewLine

InkedStarts(text) ==
    {a \in PieceStarts(text) :
        \E k \in a..PieceEnd(text, a) : text[k] \notin Whitespace}

\* the inked pieces in text order, as they stand in the text
InkedPieces(text) ==
    LET starts == InkedStarts(text)
        nth(n) == CHOOSE a \in starts : Cardinality({c \in starts : c <= a}) = n
    IN  [n \in 1..Cardinality(starts) |->
            SubSeq(text, nth(n), PieceEnd(text, nth(n)))]

\* C12: whatever subset of title, subtitle, category, tags and quote the
\* metadata result of the AI call lacks, an empty array and an empty object
\* included, the request is answered 200 with a cover slide first, on which
\* each absent field has its default: the title and subtitle of the caller
\* or else `Main Title` and `Summary`, the category `Knowledge`, the default
\* tag, and as quote the first raw paragraph or else `Summary`; the
\* finishing pass of the client keeps these fields of the cover.
C12_MissingFieldsDefault ==
    Answered =>
        LET parsed == completion[1]
            result == IF parsed.items = <<>> THEN EmptyObject
                      ELSE parsed.items[1]
            cover == res.slides[1]
            callerTitle == IF reqBody.title \in {None, Some("")}
                           THEN "Main Title" ELSE reqBody.title[1]
            callerSubtitle == IF reqBody.subtitle \in {None, Some("")}
                              THEN "Summary" ELSE reqBody.subtitle[1]
            pieces == InkedPieces(reqBody.text)
            final == FinishingPass(res.slides, 1)
        IN  /\ res.status = 200
            /\ res.error = None
            /\ cover.type = "cover"
            /\ result.title = None => cover.title = callerTitle
            /\ result.subtitle = None => cover.subtitle = callerSubtitle
            /\ result.category = None => cover.category = Some("Knowledge")
            /\ result.tags = None => cover.tags = Some(DefaultTags)
            /\ result.quote = None =>
                  cover.content = <<IF pieces # <<>> THEN pieces[1]
                                    ELSE SummaryText>>
            /\ final[1].title = cover.title
            /\ final[1].category = cover.category
            /\ final[1].tags = cover.tags
            /\ final[1].content = cover.content

\* C23: when the content of the completion is a JSON object that carries the
\* metadata fields itself, not wrapped in an array, the request is answered
\* 200 and the cover slide has every field the object carries (title,
\* subtitle, category, tags, and the quote as its content), as it has when
\* the completion is an array holding that object.
C23_ObjectBuildsCover ==
    (Answered /\ completion[1].kind = "object") =>
        LET result == completion[1].items[1]
            cover == res.slides[1]
        IN  /\ res.status = 200
            /\ cover.type = "cover"
            /\ result.title # None => cover.title = result.title[1]
            /\ result.subtitle # None => cover.subtitle = result.subtitle[1]
            /\ result.category # None => cover.category = result.category
            /\ result.tags # None => cover.tags = result.tags
            /\ result.quote # None => cover.content = <<result.quote[1]>>

\* C12 witness: the model returned an array with an object that holds a
\* category and no title and no quote, the caller gave a title, and the
\* cover carries the title of the caller, the category of the model and the
\* first paragraph of the text.
C12_Witness ==
    /\ Answered
    /\ completion[1].kind = "array"
    /\ completion[1].items # <<>>
    /\ completion[1].items[1].title = None
    /\ completion[1].items[1].quote = None
    /\ completion[1].items[1].category = Some("AI Category")
    /\ reqBody.title = Some("My Title")
    /\ res.slides[1].title = "My Title"
    /\ res.slides[1].category = Some("AI Category")
    /\ Len(res.slides) >= 2
    /\ res.slides[1].content = res.slides[2].content

\* every newline of the text ends a line
RECURSIVE LinesFrom(_, _, _)
LinesFrom(text, pos, line) ==
    IF pos > Len(text) THEN <<line>>
    ELSE IF text[pos] = NewLine
         THEN <<line>> \o LinesFrom(text, pos + 1, <<>>)
    ELSE LinesFrom(text, pos + 1, Append(line, text[pos]))

\* the lines grouped into paragraphs: a blank line closes the paragraph
RECURSIVE GroupLines(_, _)
GroupLines(lines, para) ==
    LET closed == IF para = <<>> THEN <<>> ELSE <<para>>
    IN  IF lines = <<>> THEN closed
        ELSE IF TrimIsEmpty(Head(lines))
             THEN closed \o GroupLines(Tail(lines), <<>>)
        ELSE GroupLines(Tail(lines),
                        IF para = <<>> THEN Head(lines)
                        ELSE para \o <<NewLine>> \o Head(lines))

\* the paragraphs as C13 states them: the text split at runs of blank
\* lines, each paragraph trimmed; a group holds an inked line, so none is
\* empty
BlankLineParagraphs(text) ==
    LET groups == GroupLines(LinesFrom(text, 1, <<>>), <<>>)
    IN  [k \in 1..Len(groups) |-> Trim(groups[k])]

\* the slides of the response after the cover carry the paragraphs, one per
\* slide, in order
ContentSlidesCarry(paragraphs) ==
    /\ res.slides[1].type = "cover"
    /\ Len(res.slides) = Len(paragraphs) + 1
    /\ \A n \in 1..Len(paragraphs) :
          /\ res.slides[n + 1].type = "content"
          /\ res.slides[n + 1].content = <<paragraphs[n]>>

\* C13 as stated: the content slides of the response carry the paragraphs
\* of the text split at runs of one or more blank lines, trimmed, the empty
\* ones discarded, one per slide in text order.
C13_BlankLineParagraphs ==
    Answered => ContentSlidesCarry(BlankLineParagraphs(reqBody.text))

\* C13 amended: the content slides of the response carry the pieces of the
\* text between runs of one or more newline characters that are not blank,
\* as they stand in the text, untrimmed, one per slide in text order.
C13_NewlinePieces ==
    Answered => ContentSlidesCarry(InkedPieces(reqBody.text))

\* C13 witness: the text held a piece with spaces around it, a line of
\* spaces and a closing newline; the response carries two content slides
\* and the first keeps its spaces.
C13_Witness ==
    /\ Answered
    /\ \E k \in 1..Len(reqBody.text) :
          /\ k < Len(reqBody.text)
          /\ reqBody.text[k] = NewLine
          /\ reqBody.text[k + 1] = NewLine
    /\ reqBody.text[Len(reqBody.text)] = NewLine
    /\ Len(res.slides) = 3
    /\ res.slides[2].content[1][1] = " "
    /\ Trim(res.slides[2].content[1]) # res.slides[2].content[1]

====
